---- MODULE Spec2Model ----
(***************************************************************************)
(* Slink platform: the in-memory Storage, the code strategies and the      *)
(* SlinkManager.create_slink workflow.                                     *)
(*                                                                         *)
(* Strings that the code inspects character by character (codes, aliases)  *)
(* are sequences of one-character strings.  A URL is held as the           *)
(* components urlparse() extracts from it (scheme, host, port, path); two  *)
(* URLs are the same string iff all components agree.                      *)
(***************************************************************************)
EXTENDS Integers, Sequences, FiniteSets, TLC

VARIABLES
    slinks,     \* Storage.slinks: code -> [url, clicks, alias]
    order,      \* insertion order of the keys of Storage.slinks (dict order)
    counter,    \* SequentialStrategy._counter: the next integer it hands out
    digests,    \* the digests computed so far: payload -> base-62 digest text
    strategy,   \* the code strategy the manager was constructed with
    max_extra,  \* SlinkManager.max_extra, as constructed
    last,       \* the last completed call: arguments, result, state before it
    returned,   \* every (url, alias, code) a create_slink call has returned
    backend,    \* the BaseStorage implementation: Storage or DBStorage
    procs,      \* concurrent callers: the call each is in, its position and locals
    rows,       \* the slinks table of a DBStorage fed the calls the Storage is fed
    click_logs, \* Analytics.click_logs: code -> list of click events
    manager_min_length  \* SlinkManager.min_length, as constructed

vars == <<slinks, order, counter, digests, strategy, max_extra, last, returned,
          backend, procs, rows, click_logs, manager_min_length>>

(***************************************************************************)
(* Bounds of the model.                                                    *)
(***************************************************************************)
MinLength == 4      \* SlinkManager.min_length as configured in the model
MaxExtra == 1       \* the largest SlinkManager.max_extra a manager is constructed with
DigestLen == 8      \* characters kept of a base-62 encoded digest
MaxClicks == 1      \* increment_click is not taken beyond this count
SeqStart == 61      \* SequentialStrategy.start as configured in the model
SeqMinLength == 2   \* SequentialStrategy.min_length as configured
MaxGenerate == 4    \* generate calls one SequentialStrategy serves
MaxNum == 63        \* the encoders are applied to every integer up to this one
MaxPad == 3         \* SequentialStrategy.min_length ranges over 1..MaxPad
MaxArr == 3         \* digits of the list `arr` of base62_encode the model keeps
NCallers == 3       \* callers whose calls interleave
MaxLookups == 2     \* GET /slink/{code} requests made

(***************************************************************************)
(* Program constants.                                                      *)
(***************************************************************************)
SafeLenMin == 4     \* _safe_len lower clamp
SafeLenMax == 32    \* _safe_len upper clamp
AliasMaxLen == 32   \* _validate_alias length limit
HashTextLen == 43   \* base-62 digits of a 256-bit digest

None == <<"None">>  \* Python None where a code or alias string is expected

Base62Alphabet ==
    << "0","1","2","3","4","5","6","7","8","9",
       "a","b","c","d","e","f","g","h","i","j","k","l","m",
       "n","o","p","q","r","s","t","u","v","w","x","y","z",
       "A","B","C","D","E","F","G","H","I","J","K","L","M",
       "N","O","P","Q","R","S","T","U","V","W","X","Y","Z" >>

AlphabetChars == { Base62Alphabet[i] : i \in 1..Len(Base62Alphabet) }

Rep(ch, n) == [i \in 1..n |-> ch]

Max(a, b) == IF a >= b THEN a ELSE b

\* s[:n] of Python for n >= 0
Take(s, n) == IF n >= Len(s) THEN s ELSE SubSeq(s, 1, n)

(***************************************************************************)
(* URLs.                                                                   *)
(***************************************************************************)
MkUrl(s, h, p, q) == [scheme |-> s, host |-> h, port |-> p, path |-> q]

EmptyUrl  == MkUrl("", "", "", "")
UrlA      == MkUrl("https", "a.com", "", "")
UrlB      == MkUrl("http", "b.com", "", "/p")
UrlLocal  == MkUrl("http", "localhost", "", "/x")

\* urlparse(url).netloc is non-empty iff a host or a port was written
netloc_nonempty(url) == url.host # "" \/ url.port # ""

\* urlparse(url).hostname or ""
hostname(url) == url.host

ValidUrl(url) == url.scheme \in {"http", "https"} /\ netloc_nonempty(url)

(***************************************************************************)
(* Storage (in-memory backend).                                            *)
(***************************************************************************)
Record(url, clicks, alias) == [url |-> url, clicks |-> clicks, alias |-> alias]

\* Storage.get_slink: the record, None when absent
Has(S, code) == code \in DOMAIN S

alias_exists(S, alias) ==
    \/ alias \in DOMAIN S
    \/ \E c \in DOMAIN S : S[c].alias = alias

\* Storage.find_code_by_url: first key in dict order whose url matches
find_code_by_url(S, O, url) ==
    IF \E i \in 1..Len(O) : S[O[i]].url = url
    THEN O[CHOOSE i \in 1..Len(O) :
               /\ S[O[i]].url = url
               /\ \A j \in 1..(i-1) : S[O[j]].url # url]
    ELSE None

Reject(S, O) == [ok |-> FALSE, slinks |-> S, order |-> O]

\* mutant: the code-collision check is dropped
save_slink_overwrite(S, O, code, url, alias) ==
    IF url = EmptyUrl THEN Reject(S, O)
    ELSE IF alias # None /\ alias_exists(S, alias) /\ code # alias THEN Reject(S, O)
    ELSE [ok |-> TRUE,
          slinks |-> (code :> Record(url, IF Has(S, code) THEN S[code].clicks ELSE 0, alias)) @@ S,
          order |-> IF Has(S, code) THEN O ELSE Append(O, code)]

\* mutant: the empty-url check is dropped
save_slink_accepts_empty(S, O, code, url, alias) ==
    IF alias # None /\ alias_exists(S, alias) /\ code # alias THEN Reject(S, O)
    ELSE IF Has(S, code) /\ S[code].url # url THEN Reject(S, O)
    ELSE [ok |-> TRUE,
          slinks |-> (code :> Record(url, IF Has(S, code) THEN S[code].clicks ELSE 0, alias)) @@ S,
          order |-> IF Has(S, code) THEN O ELSE Append(O, code)]

\* mutant: a re-save starts the click counter again
save_slink_resets_clicks(S, O, code, url, alias) ==
    IF url = EmptyUrl THEN Reject(S, O)
    ELSE IF alias # None /\ alias_exists(S, alias) /\ code # alias THEN Reject(S, O)
    ELSE IF Has(S, code) /\ S[code].url # url THEN Reject(S, O)
    ELSE [ok |-> TRUE,
          slinks |-> (code :> Record(url, 0, alias)) @@ S,
          order |-> IF Has(S, code) THEN O ELSE Append(O, code)]

\* mutant: a save starts again the click counter of every record of its url
save_slink_sweeps(S, O, code, url, alias) ==
    IF url = EmptyUrl THEN Reject(S, O)
    ELSE IF alias # None /\ alias_exists(S, alias) /\ code # alias THEN Reject(S, O)
    ELSE IF Has(S, code) /\ S[code].url # url THEN Reject(S, O)
    ELSE [ok |-> TRUE,
          slinks |-> (code :> Record(url, IF Has(S, code) THEN S[code].clicks ELSE 0, alias))
                     @@ [c \in DOMAIN S |->
                           IF S[c].url = url THEN [S[c] EXCEPT !.clicks = 0] ELSE S[c]],
          order |-> IF Has(S, code) THEN O ELSE Append(O, code)]

\* mutant: a code that is stored is refused, whatever its url
save_slink_insert_only(S, O, code, url, alias) ==
    IF url = EmptyUrl THEN Reject(S, O)
    ELSE IF alias # None /\ alias_exists(S, alias) /\ code # alias THEN Reject(S, O)
    ELSE IF Has(S, code) THEN Reject(S, O)
    ELSE [ok |-> TRUE,
          slinks |-> (code :> Record(url, 0, alias)) @@ S,
          order |-> Append(O, code)]

\* Storage.save_slink(slink_code, url, alias): result and the storage after it
save_slink(S, O, code, url, alias) ==
    IF url = EmptyUrl THEN Reject(S, O)
    ELSE IF alias # None /\ alias_exists(S, alias) /\ code # alias THEN Reject(S, O)
    ELSE IF Has(S, code) /\ S[code].url # url THEN Reject(S, O)
    ELSE [ok |-> TRUE,
          slinks |-> (code :> Record(url, IF Has(S, code) THEN S[code].clicks ELSE 0, alias)) @@ S,
          order |-> IF Has(S, code) THEN O ELSE Append(O, code)]

\* mutant: a click on a missing code is counted on a record made for it
increment_click_upsert(S, code) ==
    IF ~Has(S, code) THEN [ok |-> TRUE, slinks |-> (code :> Record(EmptyUrl, 1, None)) @@ S]
    ELSE [ok |-> TRUE,
          slinks |-> [S EXCEPT ![code].clicks = @ + 1]]

(* DBStorage.save_slink: INSERT ... ON CONFLICT (code) DO NOTHING, true    *)
(* iff a row was inserted.  Called here with alias NULL only, so the       *)
(* unique index on alias is never hit.                                     *)
db_save_slink(S, O, code, url, alias) ==
    IF Has(S, code) THEN Reject(S, O)
    ELSE [ok |-> TRUE,
          slinks |-> (code :> Record(url, 0, alias)) @@ S,
          order |-> Append(O, code)]

\* Storage.increment_click(slink_code)
increment_click(S, code) ==
    IF ~Has(S, code) THEN [ok |-> FALSE, slinks |-> S]
    ELSE [ok |-> TRUE,
          slinks |-> [S EXCEPT ![code].clicks = @ + 1]]

(***************************************************************************)
(* Encoder and code strategies.                                            *)
(***************************************************************************)
ValueError == <<"ValueError">>   \* the encoder's rejection of a negative number

_BASE62_BASE == Len(Base62Alphabet)

RECURSIVE B62Digits(_)
\* the divmod loop: least significant digit appended first, then reversed
B62Digits(num) ==
    IF num = 0 THEN <<>>
    ELSE B62Digits(num \div _BASE62_BASE) \o <<Base62Alphabet[(num % _BASE62_BASE) + 1]>>

\* mutant: the digits are not reversed
_base62_encode_unreversed(num) ==
    IF num < 0 THEN ValueError
    ELSE IF num = 0 THEN <<"0">>
    ELSE [i \in 1..Len(B62Digits(num)) |-> B62Digits(num)[Len(B62Digits(num)) + 1 - i]]

\* strategies._base62_encode
_base62_encode(num) ==
    IF num < 0 THEN ValueError
    ELSE IF num = 0 THEN <<"0">>
    ELSE B62Digits(num)

\* strategies._safe_len for a given length argument
_safe_len(length) ==
    IF length < SafeLenMin THEN SafeLenMin
    ELSE IF length > SafeLenMax THEN SafeLenMax ELSE length

\* str.rjust(width, "0")
rjust(s, width) == IF Len(s) >= width THEN s ELSE Rep("0", width - Len(s)) \o s

(* A SHA-256 / HMAC digest cannot be computed here; what the code relies on *)
(* is that it is a fixed function of its payload.  The base-62 text of a    *)
(* digest is drawn from DigestPool the first time a payload is hashed and   *)
(* remembered in `digests`.  The texts of the pool agree on their first     *)
(* MinLength characters and on no longer prefix, or on all, so that         *)
(* truncated codes collide, stop colliding once extended, or never differ.  *)
DigestA == Rep("a", DigestLen)
DigestB == Rep("a", MinLength) \o Rep("b", DigestLen - MinLength)
DigestPool == {DigestA, DigestB}

Strategies == {"sha256", "hmac-sha256", "random", "sequential", "stub"}

SeqPrefix == <<>>   \* SequentialStrategy.prefix (SHARD_PREFIX), empty by default

\* mutant: the counter text is padded on the right
seq_code_ljust(n, min_length, prefix) ==
    IF n < 0 THEN ValueError
    ELSE LET code == _base62_encode(n)
         IN  prefix \o (IF Len(code) >= min_length THEN code
                        ELSE code \o Rep("0", min_length - Len(code)))

\* SequentialStrategy.generate once the counter value n is taken: encode,
\* pad on the left to min_length, prepend the prefix
seq_code(n, min_length, prefix) ==
    IF n < 0 THEN ValueError
    ELSE prefix \o rjust(_base62_encode(n), min_length)

\* the payload tuple a digest is remembered under
UrlPayload(strat, url) == <<strat, url>>
SaltPayload(url, other) == <<"salt", url, other>>

\* base-62 text of the digest of a payload; `fresh` is what it turns out to
\* be when the payload is hashed for the first time
DigestText(D, payload, fresh) ==
    IF payload \in DOMAIN D THEN D[payload] ELSE fresh

\* the payload hashed by the strategies for a given counter argument
HashPayload(strat, url, hcounter) ==
    IF hcounter = 0 THEN UrlPayload(strat, url) ELSE <<strat, url, hcounter>>

\* mutant: the code is the end of the digest text
hash_generate_tail(text, length) ==
    SubSeq(text, Max(1, Len(text) - _safe_len(length) + 1), Len(text))

\* mutant: the slice is one character short
hash_generate_short(text, length) == Take(text, _safe_len(length) - 1)

\* SHA256Strategy.generate / HMACSHA256Strategy.generate given the base-62
\* text of the digest: _base62_encode(num)[:L] with L = _safe_len(length)
hash_generate(text, length) == Take(text, _safe_len(length))

\* s[:n] of Python for any integer n
PyTake(s, n) == IF n >= 0 THEN Take(s, n) ELSE Take(s, Max(0, Len(s) + n))

\* SlinkManager.deterministic_slink given the base-62 text of the digest
deterministic_slink(text, length) == PyTake(text, length)

(* The environment of one create_slink call is a record `env`:             *)
(*   probe1, probe2  what _is_reachable answers at lines 246 and 248       *)
(*   dUrl, dSalt     the digests of payloads hashed for the first time     *)
(*   rnd             what RandomStrategy draws, call by call               *)
\* code_strategy(url, length) on the k-th strategy call of one create_slink
generate(strat, D, ctr, url, length, k, env) ==
    CASE strat = "sha256" ->
           hash_generate(DigestText(D, HashPayload(strat, url, 0), env.dUrl), length)
      [] strat = "hmac-sha256" ->
           hash_generate(DigestText(D, HashPayload(strat, url, 0), env.dUrl), length)
      [] strat = "random" ->
           Rep(env.rnd[k], _safe_len(length))
      [] strat = "sequential" ->
           seq_code(ctr + k, SeqMinLength, SeqPrefix)
      [] OTHER ->
           Rep("Z", length)

(***************************************************************************)
(* SlinkManager.                                                           *)
(***************************************************************************)
ErrUrl      == "Invalid URL format"
ErrReach    == "URL is not reachable (HEAD/GET failed)"
ErrAlias    == "Alias must contain only 0-9a-zA-Z"
ErrTooLong  == "Alias too long"
ErrConflict == "Alias already exists"
ErrPersist  == "Failed to create slink"

\* SlinkManager.base62_encode, one turn of `while num:`: divmod and append
encode_turn(st) ==
    [num |-> st.num \div Len(Base62Alphabet),
     arr |-> Append(st.arr, Base62Alphabet[(st.num % Len(Base62Alphabet)) + 1])]

RECURSIVE encode_loop(_)
\* the loop run to its end, for a number it ends for
encode_loop(st) == IF st.num = 0 THEN st.arr ELSE encode_loop(encode_turn(st))

\* list.reverse()
Reverse(arr) == [i \in 1..Len(arr) |-> arr[Len(arr) + 1 - i]]

\* SlinkManager.base62_encode(num) for num >= 0
base62_encode(num) ==
    IF num = 0 THEN <<Base62Alphabet[1]>>
    ELSE Reverse(encode_loop([num |-> num, arr |-> <<>>]))

(* The outcome of a create_slink call: status "ok" and the code returned,  *)
(* or the message of the ValueError raised; the storage after the call;    *)
(* and how often it called the strategy (gen), save_slink (saves, with the *)
(* result of the last one in saved) and _is_reachable (probes), and which  *)
(* payloads it hashed.                                                     *)
Outcome(status, code, S, O, gen, saved, probes, hashedUrl, salt) ==
    [status |-> status, code |-> code, slinks |-> S, order |-> O,
     gen |-> gen, saved |-> saved, probes |-> probes,
     hashedUrl |-> hashedUrl, salt |-> salt]

\* SlinkManager._validate_url
_validate_url(url) == ValidUrl(url)

\* Base62Pattern.match(alias): ^[0-9a-zA-Z]+$ ; "$" also matches just before
\* a newline that ends the string
Base62Match(alias) ==
    LET body == IF Len(alias) > 1 /\ alias[Len(alias)] = "\n"
                THEN SubSeq(alias, 1, Len(alias) - 1) ELSE alias
    IN  /\ Len(body) >= 1
        /\ \A i \in 1..Len(body) : body[i] \in AlphabetChars

\* SlinkManager._validate_alias: "ok" or the message of the ValueError
_validate_alias(alias) ==
    IF ~Base62Match(alias) THEN ErrAlias
    ELSE IF Len(alias) > AliasMaxLen THEN ErrTooLong
    ELSE "ok"

\* mutant: no probe is made unless check_reachable is requested
reach_gate_on_request(url, check, env) ==
    IF check /\ ~env.probe1 THEN [rejected |-> TRUE, probes |-> 1]
    ELSE IF check /\ ~env.probe2 THEN [rejected |-> TRUE, probes |-> 2]
    ELSE [rejected |-> FALSE, probes |-> IF check THEN 2 ELSE 0]

\* the reachability gate of create_slink: the number of probes made, and
\* whether the call is rejected as unreachable
reach_gate(url, check, env) ==
    LET enforce_local == hostname(url) \in {"127.0.0.1", "localhost"}
        first == check \/ enforce_local
    IN  IF first /\ ~env.probe1 THEN [rejected |-> TRUE, probes |-> 1]
        ELSE IF check /\ ~env.probe2
             THEN [rejected |-> TRUE, probes |-> 2]
        ELSE [rejected |-> FALSE,
              probes |-> (IF first THEN 1 ELSE 0) + (IF check THEN 1 ELSE 0)]

\* mutant: an alias in use is re-bound to the new url
alias_branch_rebinds(S, O, url, alias, probes) ==
    IF _validate_alias(alias) # "ok"
    THEN Outcome(_validate_alias(alias), None, S, O, 0, "none", probes, FALSE, None)
    ELSE LET r == save_slink_overwrite(S, O, alias, url, alias)
         IN  Outcome("ok", alias, r.slinks, r.order, 0, "true", probes, FALSE, None)

\* mutant: an alias in use is refused also for the url it is bound to
alias_branch_strict(S, O, url, alias, probes) ==
    IF _validate_alias(alias) # "ok"
    THEN Outcome(_validate_alias(alias), None, S, O, 0, "none", probes, FALSE, None)
    ELSE IF Has(S, alias)
    THEN Outcome(ErrConflict, None, S, O, 0, "none", probes, FALSE, None)
    ELSE LET r == save_slink(S, O, alias, url, alias)
         IN  IF r.ok
             THEN Outcome("ok", alias, r.slinks, r.order, 0, "true", probes, FALSE, None)
             ELSE Outcome(ErrPersist, None, r.slinks, r.order, 0, "false", probes, FALSE, None)

\* mutant: the alias is attached to the record the url already has
alias_branch_attaches(S, O, url, alias, probes) ==
    IF _validate_alias(alias) # "ok"
    THEN Outcome(_validate_alias(alias), None, S, O, 0, "none", probes, FALSE, None)
    ELSE IF Has(S, alias)
    THEN IF S[alias].url = url
         THEN Outcome("ok", alias, S, O, 0, "none", probes, FALSE, None)
         ELSE Outcome(ErrConflict, None, S, O, 0, "none", probes, FALSE, None)
    ELSE LET held == find_code_by_url(S, O, url)
             code == IF held # None THEN held ELSE alias
             r == save_slink(S, O, code, url, alias)
         IN  IF r.ok
             THEN Outcome("ok", alias, r.slinks, r.order, 0, "true", probes, FALSE, None)
             ELSE Outcome(ErrPersist, None, r.slinks, r.order, 0, "false", probes, FALSE, None)

\* create_slink, alias given: validate, look the alias up, save it
alias_branch(S, O, url, alias, probes) ==
    IF _validate_alias(alias) # "ok"
    THEN Outcome(_validate_alias(alias), None, S, O, 0, "none", probes, FALSE, None)
    ELSE IF Has(S, alias)
    THEN IF S[alias].url = url
         THEN Outcome("ok", alias, S, O, 0, "none", probes, FALSE, None)
         ELSE Outcome(ErrConflict, None, S, O, 0, "none", probes, FALSE, None)
    ELSE LET r == save_slink(S, O, alias, url, alias)
         IN  IF r.ok
             THEN Outcome("ok", alias, r.slinks, r.order, 0, "true", probes, FALSE, None)
             ELSE Outcome(ErrPersist, None, r.slinks, r.order, 0, "false", probes, FALSE, None)

\* Python truthiness of an optional string: neither None nor ""
Truthy(str) == str # None /\ str # <<>>

\* mutant: the dedupe lookup is skipped
dedupe_skipped(S, O, url) == None

\* mutant: the dedupe lookup returns the newest matching code
dedupe_newest(S, O, url) ==
    IF \E i \in 1..Len(O) : S[O[i]].url = url
    THEN O[CHOOSE i \in 1..Len(O) :
               /\ S[O[i]].url = url
               /\ \A j \in (i+1)..Len(O) : S[O[j]].url # url]
    ELSE None

\* create_slink, no alias: existing_code = storage.find_code_by_url(url)
dedupe(S, O, url) == find_code_by_url(S, O, url)

\* the candidate the k-th strategy call of the call yields (k = 0: the base code)
Candidate(D, ctr, strat, url, k, env) ==
    generate(strat, D, ctr, url, manager_min_length + k, k, env)

\* mutant: the salted slice is as long as the longest extension
salted_code_unpadded(D, mx, url, other, env) ==
    Take(DigestText(D, SaltPayload(url, other), env.dSalt), manager_min_length + mx)

\* the salted fallback code
salted_code(D, mx, url, other, env) ==
    Take(DigestText(D, SaltPayload(url, other), env.dSalt), manager_min_length + mx + 2)

Resolved(code, gen, final, salt) ==
    [code |-> code, gen |-> gen, final |-> final, salt |-> salt]

\* mutant: an occupied base code is returned whatever url it is bound to
resolve_code_no_url_check(S, D, ctr, strat, mx, url, env) ==
    LET base == Candidate(D, ctr, strat, url, 0, env)
    IN  IF ~Has(S, base) THEN Resolved(base, 1, FALSE, None)
        ELSE Resolved(base, 1, TRUE, None)

\* mutant: the extension loop tries one length more than max_extra allows
resolve_code_retries(S, D, ctr, strat, mx, url, env) ==
    LET base == Candidate(D, ctr, strat, url, 0, env)
        free == {k \in 1..(mx + 1) : ~Has(S, Candidate(D, ctr, strat, url, k, env))}
        kmin == CHOOSE k \in free : \A j \in free : k <= j
    IN  IF ~Has(S, base) THEN Resolved(base, 1, FALSE, None)
        ELSE IF S[base].url = url THEN Resolved(base, 1, TRUE, None)
        ELSE IF free # {}
             THEN Resolved(Candidate(D, ctr, strat, url, kmin, env), 1 + kmin, FALSE, None)
        ELSE Resolved(salted_code(D, mx, url, S[base].url, env), 2 + mx, FALSE,
                      SaltPayload(url, S[base].url))

\* mutant: the longest free extension is taken
resolve_code_longest(S, D, ctr, strat, mx, url, env) ==
    LET base == Candidate(D, ctr, strat, url, 0, env)
        free == {k \in 1..mx : ~Has(S, Candidate(D, ctr, strat, url, k, env))}
        kmax == CHOOSE k \in free : \A j \in free : k >= j
    IN  IF ~Has(S, base) THEN Resolved(base, 1, FALSE, None)
        ELSE IF S[base].url = url THEN Resolved(base, 1, TRUE, None)
        ELSE IF free # {}
             THEN Resolved(Candidate(D, ctr, strat, url, kmax, env), 1 + kmax, FALSE, None)
        ELSE Resolved(salted_code(D, mx, url, S[base].url, env), 1 + mx, FALSE,
                      SaltPayload(url, S[base].url))

(* create_slink, step 4: the base code; when it is bound to another url    *)
(* the first free extension, else the salted fallback.  final = TRUE when  *)
(* the base code is already bound to this url and is returned unsaved.     *)
resolve_code(S, D, ctr, strat, mx, url, env) ==
    LET base == Candidate(D, ctr, strat, url, 0, env)
        free == {k \in 1..mx : ~Has(S, Candidate(D, ctr, strat, url, k, env))}
        kmin == CHOOSE k \in free : \A j \in free : k <= j
    IN  IF ~Has(S, base) THEN Resolved(base, 1, FALSE, None)
        ELSE IF S[base].url = url THEN Resolved(base, 1, TRUE, None)
        ELSE IF free # {}
             THEN Resolved(Candidate(D, ctr, strat, url, kmin, env), 1 + kmin, FALSE, None)
        ELSE Resolved(salted_code(D, mx, url, S[base].url, env), 1 + mx, FALSE,
                      SaltPayload(url, S[base].url))

\* mutant: the result of save_slink is ignored
persist_unchecked(S, O, url, res, probes, hashedUrl) ==
    LET r == save_slink(S, O, res.code, url, None)
    IN  Outcome("ok", res.code, r.slinks, r.order, res.gen,
                IF r.ok THEN "true" ELSE "false", probes, hashedUrl, res.salt)

\* mutant: a refused save is forced before the call fails
persist_forced(S, O, url, res, probes, hashedUrl) ==
    LET r == save_slink(S, O, res.code, url, None)
        f == save_slink_overwrite(S, O, res.code, url, None)
    IN  IF r.ok
        THEN Outcome("ok", res.code, r.slinks, r.order, res.gen, "true",
                     probes, hashedUrl, res.salt)
        ELSE Outcome(ErrPersist, None, f.slinks, f.order, res.gen, "false",
                     probes, hashedUrl, res.salt)

\* create_slink, step 5: save the final code, or fail
persist(S, O, url, res, probes, hashedUrl) ==
    LET r == save_slink(S, O, res.code, url, None)
    IN  IF r.ok
        THEN Outcome("ok", res.code, r.slinks, r.order, res.gen, "true",
                     probes, hashedUrl, res.salt)
        ELSE Outcome(ErrPersist, None, r.slinks, r.order, res.gen, "false",
                     probes, hashedUrl, res.salt)

\* SlinkManager.create_slink(url, alias, check_reachable)
create_slink(S, O, D, ctr, strat, mx, url, alias, check, env) ==
    IF ~_validate_url(url)
    THEN Outcome(ErrUrl, None, S, O, 0, "none", 0, FALSE, None)
    ELSE LET gate == reach_gate(url, check, env)
         IN
         IF gate.rejected
         THEN Outcome(ErrReach, None, S, O, 0, "none", gate.probes, FALSE, None)
         ELSE IF Truthy(alias)
         THEN alias_branch(S, O, url, alias, gate.probes)
         ELSE IF Truthy(dedupe(S, O, url))
         THEN Outcome("ok", dedupe(S, O, url), S, O, 0, "none", gate.probes, FALSE, None)
         ELSE LET res == resolve_code(S, D, ctr, strat, mx, url, env)
                  hashedUrl == strat \in {"sha256", "hmac-sha256"}
              IN  IF res.final
                  THEN Outcome("ok", res.code, S, O, res.gen, "none",
                               gate.probes, hashedUrl, None)
                  ELSE persist(S, O, url, res, gate.probes, hashedUrl)

(***************************************************************************)
(* The calls the model makes.                                              *)
(***************************************************************************)
CodeA  == Rep("a", MinLength)        \* a base code the strategies generate
CodeAS == Rep("a", MinLength + 2)    \* the salted fallback code of max_extra = 0
CodeV  == <<"v", "1">>


StoreCodes   == {CodeA, CodeV}
StoreUrls    == {EmptyUrl, UrlA, UrlB}
StoreAliases == {None} \cup StoreCodes

(* `last` describes the last completed call: its arguments, its result     *)
(* (status, ret), how often create_slink called the strategy (gen) and     *)
(* _is_reachable (probes) and what its save_slink call returned (saved),   *)
(* the url its code or alias was bound to before the call (bound, the      *)
(* empty url when it was free), whether the call changed the storage, and  *)
(* what _is_reachable answered each time create_slink called it (answers). *)
NoCall ==
    [op |-> "none", code |-> None, url |-> EmptyUrl, alias |-> None, check |-> FALSE,
     status |-> "none", ret |-> None, gen |-> 0, saved |-> "none", probes |-> 0,
     bound |-> EmptyUrl, changed |-> FALSE, answers |-> <<>>]

\* the empty dict
EmptyDict == <<>>

\* the url a key of the storage is bound to, the empty url when it is free
BoundUrl(S, code) == IF Has(S, code) THEN S[code].url ELSE EmptyUrl

(* A concurrent caller: the operation it is in (op), the storage call it   *)
(* makes next (pc), its arguments, the locals it carries from one storage  *)
(* call to the next (code, other, k, seen), its result (status, ret) and   *)
(* the statement that produced it (via).                                   *)
Callers == 1..NCallers

Idle ==
    [op |-> "none", pc |-> "idle", url |-> EmptyUrl, alias |-> None, code |-> None,
     other |-> EmptyUrl, k |-> 0, seen |-> 0, status |-> "none", ret |-> None,
     via |-> "none"]

Init ==
    /\ slinks = EmptyDict
    /\ order = <<>>
    /\ counter = SeqStart
    /\ digests = EmptyDict
    /\ strategy \in Strategies
    /\ max_extra \in {0, MaxExtra}
    /\ last = NoCall
    /\ returned = {}
    /\ backend = "memory"
    /\ procs = [p \in Callers |-> Idle]
    /\ rows = EmptyDict
    /\ click_logs = EmptyDict
    /\ manager_min_length = MinLength

\* direct Storage.save_slink(code, url, alias) calls with the arguments
\* drawn from Cs, Us and As
SaveSlinkOver(Cs, Us, As) ==
    \E code \in Cs, url \in Us, alias \in As :
      \E r \in {save_slink(slinks, order, code, url, alias)} :
        /\ slinks' = r.slinks
        /\ order' = r.order
        /\ last' = [NoCall EXCEPT !.op = "save_slink", !.code = code, !.url = url,
                                  !.alias = alias,
                                  !.status = IF r.ok THEN "true" ELSE "false",
                                  !.bound = BoundUrl(slinks, code),
                                  !.changed = (r.slinks # slinks \/ r.order # order)]
        /\ UNCHANGED <<counter, digests, strategy, max_extra, returned, backend, procs,
                       rows, click_logs, manager_min_length>>

RECURSIVE SumClicks(_, _)
SumClicks(S, codes) ==
    IF codes = {} THEN 0
    ELSE LET c == CHOOSE x \in codes : TRUE
         IN  S[c].clicks + SumClicks(S, codes \ {c})

\* the clicks counted over all records
TotalClicks(S) == SumClicks(S, DOMAIN S)

\* a Storage.increment_click(code) call, for a stored or a missing code
IncrementClick ==
    \E code \in DOMAIN slinks \cup {CodeV} :
      \E r \in {increment_click(slinks, code)} :
        /\ Has(slinks, code) => TotalClicks(slinks) < MaxClicks
        /\ slinks' = r.slinks
        /\ last' = [NoCall EXCEPT !.op = "increment_click", !.code = code,
                                  !.status = IF r.ok THEN "true" ELSE "false",
                                  !.bound = BoundUrl(slinks, code),
                                  !.changed = (r.slinks # slinks)]
        /\ UNCHANGED <<order, counter, digests, strategy, max_extra, returned,
                       backend, procs,
                       rows, click_logs, manager_min_length>>

\* the digests known after a call that hashed the given payloads
Remember(D, strat, url, out, env) ==
    LET D1 == IF out.hashedUrl /\ UrlPayload(strat, url) \notin DOMAIN D
              THEN (UrlPayload(strat, url) :> env.dUrl) @@ D ELSE D
    IN  IF out.salt # None /\ out.salt \notin DOMAIN D1
        THEN (out.salt :> env.dSalt) @@ D1 ELSE D1

(* The environments that differ for a call.  A probe has an answer only     *)
(* when the gate asks for it: the first for a valid url that is local or   *)
(* to be checked, the second after a first one that answered reachable.    *)
(* A digest is drawn only by a call that can reach the strategy (valid     *)
(* url, no alias): by a hashing strategy for a payload not hashed before,  *)
(* by the salted fallback when a code is bound to another url.             *)
(* RandomStrategy alone draws characters.                                  *)
EnvsOf(S, D, strat, url, alias, check) ==
    LET asks == ValidUrl(url) /\ (check \/ hostname(url) \in {"127.0.0.1", "localhost"})
        generates == ValidUrl(url) /\ ~Truthy(alias)
    IN  {e \in [probe1 : IF asks THEN BOOLEAN ELSE {TRUE},
                probe2 : IF asks /\ check THEN BOOLEAN ELSE {TRUE},
                dUrl   : IF /\ generates
                            /\ strat \in {"sha256", "hmac-sha256"}
                            /\ UrlPayload(strat, url) \notin DOMAIN D
                         THEN DigestPool ELSE {DigestA},
                dSalt  : IF generates /\ \E c \in DOMAIN S : S[c].url # url
                         THEN DigestPool ELSE {DigestA},
                rnd    : IF generates /\ strat = "random"
                         THEN [0..MaxExtra -> {"a", "b"}]
                         ELSE {[k \in 0..MaxExtra |-> "a"]}] :
            ~e.probe1 => e.probe2}

\* SlinkManager.create_slink(url, alias, check_reachable) calls with the
\* arguments drawn from U, A and C
CreateSlinkOver(U, A, C) ==
    \E url \in U, alias \in A, check \in C :
      \E env \in EnvsOf(slinks, digests, strategy, url, alias, check) :
        \E out \in {create_slink(slinks, order, digests, counter, strategy, max_extra,
                                 url, alias, check, env)} :
            /\ strategy = "sequential" => counter + out.gen <= SeqStart + MaxGenerate
            /\ slinks' = out.slinks
            /\ order' = out.order
            /\ counter' = IF strategy = "sequential" THEN counter + out.gen ELSE counter
            /\ digests' = Remember(digests, strategy, url, out, env)
            /\ returned' = IF out.status = "ok"
                           THEN returned \cup {[url |-> url,
                                                alias |-> IF Truthy(alias) THEN alias ELSE None,
                                                code |-> out.code]}
                           ELSE returned
            /\ last' = [NoCall EXCEPT !.op = "create_slink", !.url = url, !.alias = alias,
                                      !.check = check, !.status = out.status,
                                      !.ret = out.code, !.gen = out.gen,
                                      !.saved = out.saved, !.probes = out.probes,
                                      !.bound = IF Truthy(alias) THEN BoundUrl(slinks, alias)
                                                ELSE EmptyUrl,
                                      !.changed = (out.slinks # slinks \/ out.order # order),
                                      !.answers = Take(<<env.probe1, env.probe2>>, out.probes)]
            /\ UNCHANGED <<strategy, max_extra, backend, procs,
                       rows, click_logs, manager_min_length>>

\* storage calls with every kind of url and alias
SaveSlink == SaveSlinkOver(StoreCodes, StoreUrls, StoreAliases)

\* the storage calls made next to manager calls
SaveStored == SaveSlinkOver(StoreCodes, {UrlA, UrlB}, {None})

\* create_slink calls with the default check_reachable
CreateSlink == CreateSlinkOver({UrlA, UrlLocal}, {None, CodeA, CodeAS}, {FALSE})

\* the create_slink calls made next to direct storage calls
CreateStored == CreateSlinkOver({UrlA, UrlB}, {None, CodeA}, {FALSE})

\* storage calls and manager calls in any order
Next == SaveStored \/ IncrementClick \/ CreateStored
Spec == Init /\ [][Next]_vars

\* the Storage alone
NextStorage == SaveSlink \/ IncrementClick
InitStorage == Init /\ strategy = "sha256" /\ max_extra = 0
SpecStorage == InitStorage /\ [][NextStorage]_vars

\* the manager is the only writer of its storage
NextManager == CreateSlink \/ IncrementClick
SpecManager == Init /\ [][NextManager]_vars

(* create_slink with every kind of argument: urls of a foreign scheme, with *)
(* no host, with a port and no host ("http://:80"); aliases with a         *)
(* character outside the alphabet, longer than 32, ending in a newline;    *)
(* check_reachable requested or not.                                       *)
UrlFtp     == MkUrl("ftp", "a.com", "", "")
UrlNoHost  == MkUrl("https", "", "", "/missing-host")
UrlPort    == MkUrl("http", "", "80", "")

AliasBad     == <<"a", "-", "b">>
AliasLong    == Rep("a", AliasMaxLen + 1)
AliasLongBad == Rep("-", AliasMaxLen + 1)
AliasNewline == <<"a", "b", "\n">>

InputUrls    == {UrlA, UrlFtp, UrlNoHost, UrlPort}
InputAliases == {None, <<>>, CodeA, AliasBad, AliasLong, AliasLongBad, AliasNewline}

CreateInputs == CreateSlinkOver(InputUrls, InputAliases, BOOLEAN)

\* a manager constructed with the default code strategy
InitInputs == Init /\ strategy = "sha256" /\ max_extra = MaxExtra

NextInputs == CreateInputs
SpecInputs == InitInputs /\ [][NextInputs]_vars

\* create_slink with check_reachable requested or not, for a remote and a
\* local host
CreateReach == CreateSlinkOver({UrlA, UrlLocal}, {None, CodeA}, BOOLEAN)

NextReach == CreateReach
SpecReach == Init /\ [][NextReach]_vars

\* create_slink with aliases that occupy the base code and its first
\* extension
CodeA1 == Rep("a", MinLength + 1)

CreateOccupied == CreateSlinkOver({UrlA, UrlB}, {None, CodeA, CodeA1}, {FALSE})

NextBounded == CreateOccupied
SpecBounded == Init /\ [][NextBounded]_vars

(* create_slink calls whose collision handling is recorded with the call:  *)
(* what the strategy yields on each of its 1 + max_extra calls (cands),    *)
(* whether each of these codes was a key of the storage before the call    *)
(* (occupied), the url the base code was bound to (other), whether a       *)
(* record already mapped the url (mapped), and the salted fallback code    *)
(* of the url and that other url (salted).                                 *)
CreateTraced ==
    \E url \in {UrlA, UrlB}, alias \in {None, CodeA, CodeA1} :
      \E env \in EnvsOf(slinks, digests, strategy, url, alias, FALSE) :
        \E out \in {create_slink(slinks, order, digests, counter, strategy, max_extra,
                                 url, alias, FALSE, env)} :
          LET cands == [i \in 1..(1 + max_extra) |->
                          Candidate(digests, counter, strategy, url, i - 1, env)]
              other == BoundUrl(slinks, cands[1])
          IN
            /\ strategy = "sequential" => counter + out.gen <= SeqStart + MaxGenerate
            /\ slinks' = out.slinks
            /\ order' = out.order
            /\ counter' = IF strategy = "sequential" THEN counter + out.gen ELSE counter
            /\ digests' = Remember(digests, strategy, url, out, env)
            /\ returned' = IF out.status = "ok"
                           THEN returned \cup {[url |-> url,
                                                alias |-> IF Truthy(alias) THEN alias ELSE None,
                                                code |-> out.code]}
                           ELSE returned
            /\ last' = [cands |-> cands,
                        occupied |-> [i \in 1..(1 + max_extra) |-> Has(slinks, cands[i])],
                        other |-> other,
                        mapped |-> Truthy(dedupe(slinks, order, url)),
                        salted |-> salted_code(digests, max_extra, url, other, env)] @@
                       [NoCall EXCEPT !.op = "create_slink", !.url = url, !.alias = alias,
                                      !.status = out.status,
                                      !.ret = out.code, !.gen = out.gen,
                                      !.saved = out.saved, !.probes = out.probes,
                                      !.bound = IF Truthy(alias) THEN BoundUrl(slinks, alias)
                                                ELSE EmptyUrl,
                                      !.changed = (out.slinks # slinks \/ out.order # order)]
            /\ UNCHANGED <<strategy, max_extra, backend, procs, rows, click_logs, manager_min_length>>

(* The manager is constructed with the min_length of the other            *)
(* specifications or with one below the shortest code the hash strategies  *)
(* return, and with an extension loop of up to one turn more than in the   *)
(* other specifications (except under the random strategy), as long as the *)
(* digest text has the min_length + max_extra + 2 characters of the        *)
(* salted slice.                                                           *)
InitExtend ==
    /\ slinks = EmptyDict
    /\ order = <<>>
    /\ counter = SeqStart
    /\ digests = EmptyDict
    /\ strategy \in Strategies
    /\ max_extra \in {0, MaxExtra, MaxExtra + 1}
    /\ strategy = "random" => max_extra <= MaxExtra
    /\ last = NoCall
    /\ returned = {}
    /\ backend = "memory"
    /\ procs = [p \in Callers |-> Idle]
    /\ rows = EmptyDict
    /\ click_logs = EmptyDict
    /\ manager_min_length \in {SafeLenMin - 2, MinLength}
    /\ manager_min_length + max_extra + 2 <= DigestLen

NextExtend == CreateTraced
SpecExtend == InitExtend /\ [][NextExtend]_vars

(* create_slink calls that end in each of its failures: a foreign scheme,  *)
(* an unreachable local host, an alias outside the alphabet or too long,   *)
(* an alias bound to another url, and with max_extra = 0 a salted fallback *)
(* code that an alias has taken.  Clicks are counted in between.           *)
CreateFailing ==
    CreateSlinkOver({UrlA, UrlFtp, UrlLocal},
                    {None, CodeA, CodeAS, AliasBad, AliasLong}, {FALSE})

InitFailures == Init /\ strategy = "sha256" /\ max_extra = 0
NextFailures == CreateFailing \/ IncrementClick
SpecFailures == InitFailures /\ [][NextFailures]_vars

(***************************************************************************)
(* Concurrent callers.  Each storage call is one atomic step; what a       *)
(* caller does between two storage calls is local to it.  The one          *)
(* exception is Storage.increment_click, whose `clicks += 1` reads the     *)
(* counter and writes it back in two steps with no lock held.              *)
(***************************************************************************)
RaceUrls == {UrlA, UrlB}

AtWork(p, op, pc) == procs[p].op = op /\ procs[p].pc = pc

\* the caller's call is over with this result
Done(p, status, ret, via) ==
    [procs EXCEPT ![p].pc = "done", ![p].status = status, ![p].ret = ret,
                  ![p].via = via]

\* Storage.increment_click, line 101 and the read of line 103
ClickRead(p) ==
    /\ backend = "memory" /\ procs[p].pc = "idle"
    /\ \E code \in {CodeV} :
          LET q == [procs EXCEPT ![p].op = "increment_click", ![p].code = code]
          IN  procs' = IF ~Has(slinks, code)
                       THEN [q EXCEPT ![p].pc = "done", ![p].status = "false"]
                       ELSE [q EXCEPT ![p].pc = "click_write",
                                      ![p].seen = slinks[code].clicks]
    /\ UNCHANGED <<slinks, order, counter, digests, strategy, max_extra, last,
                   returned, backend,
                       rows, click_logs, manager_min_length>>

\* Storage.increment_click, the write of line 103 and the return
ClickWrite(p) ==
    /\ AtWork(p, "increment_click", "click_write")
    /\ slinks' = [slinks EXCEPT ![procs[p].code].clicks = procs[p].seen + 1]
    /\ procs' = Done(p, "true", None, "click")
    /\ UNCHANGED <<order, counter, digests, strategy, max_extra, last, returned, backend,
                       rows, click_logs, manager_min_length>>

\* DBStorage.increment_click: one UPDATE statement
DbClick(p) ==
    /\ backend = "db" /\ procs[p].pc = "idle"
    /\ \E code \in {CodeV} :
        \E r \in {increment_click(slinks, code)} :
          /\ slinks' = r.slinks
          /\ procs' = [procs EXCEPT ![p].op = "increment_click", ![p].code = code,
                                    ![p].pc = "done",
                                    ![p].status = IF r.ok THEN "true" ELSE "false"]
    /\ UNCHANGED <<order, counter, digests, strategy, max_extra, last, returned, backend,
                       rows, click_logs, manager_min_length>>

\* a save_slink(code, url) call of either backend, one atomic step
SaveCall(p) ==
    /\ procs[p].pc = "idle"
    /\ \E url \in RaceUrls :
        \E r \in {IF backend = "memory" THEN save_slink(slinks, order, CodeV, url, None)
                  ELSE db_save_slink(slinks, order, CodeV, url, None)} :
          /\ slinks' = r.slinks
          /\ order' = r.order
          /\ procs' = [procs EXCEPT ![p].op = "save_slink", ![p].code = CodeV,
                                    ![p].url = url, ![p].pc = "done",
                                    ![p].other = BoundUrl(slinks, CodeV),
                                    ![p].status = IF r.ok THEN "true" ELSE "false"]
    /\ UNCHANGED <<counter, digests, strategy, max_extra, last, returned, backend,
                       rows, click_logs, manager_min_length>>

(* create_slink by concurrent callers, with the default check_reachable.   *)
(* The urls are valid and not local, so lines 240-249 pass without a       *)
(* storage call.  CreateLookup is the first storage call of the call:      *)
(* get_slink(alias) at line 255, or find_code_by_url(url) at line 267.     *)
CreateLookupOver(p, U, A) ==
    /\ backend = "memory" /\ procs[p].pc = "idle"
    /\ \E url \in U, alias \in A :
          LET q == [procs EXCEPT ![p].op = "create_slink", ![p].url = url,
                                 ![p].alias = alias]
              end(status, ret, via) ==
                  [q EXCEPT ![p].pc = "done", ![p].status = status, ![p].ret = ret,
                            ![p].via = via]
          IN  procs' =
                IF Truthy(alias)
                THEN IF _validate_alias(alias) # "ok"
                     THEN end(_validate_alias(alias), None, "alias")
                     ELSE IF Has(slinks, alias)
                     THEN IF slinks[alias].url = url THEN end("ok", alias, "alias")
                          ELSE end(ErrConflict, None, "alias")
                     ELSE [q EXCEPT ![p].pc = "alias_save"]
                ELSE IF Truthy(dedupe(slinks, order, url))
                     THEN end("ok", dedupe(slinks, order, url), "dedupe")
                     ELSE [q EXCEPT ![p].pc = "generate"]
    /\ UNCHANGED <<slinks, order, counter, digests, strategy, max_extra, last,
                   returned, backend,
                       rows, click_logs, manager_min_length>>

CreateLookup(p) == CreateLookupOver(p, RaceUrls, {None, CodeA})

\* mutant: the result of the alias save is ignored
CreateAliasSaveUnchecked(p) ==
    /\ AtWork(p, "create_slink", "alias_save")
    /\ \E r \in {save_slink(slinks, order, procs[p].alias, procs[p].url, procs[p].alias)} :
          /\ slinks' = r.slinks
          /\ order' = r.order
          /\ procs' = Done(p, "ok", procs[p].alias, "alias_save")
    /\ UNCHANGED <<counter, digests, strategy, max_extra, last, returned, backend,
                       rows, click_logs, manager_min_length>>

\* create_slink, line 263: save_slink(alias, url, alias=alias)
CreateAliasSave(p) ==
    /\ AtWork(p, "create_slink", "alias_save")
    /\ \E r \in {save_slink(slinks, order, procs[p].alias, procs[p].url, procs[p].alias)} :
          /\ slinks' = r.slinks
          /\ order' = r.order
          /\ procs' = IF r.ok THEN Done(p, "ok", procs[p].alias, "alias_save")
                      ELSE Done(p, ErrPersist, None, "alias_save")
    /\ UNCHANGED <<counter, digests, strategy, max_extra, last, returned, backend,
                       rows, click_logs, manager_min_length>>

\* the caller goes on to save the salted fallback code (lines 284-288)
ToFallback(p, D, other, env) ==
    [procs EXCEPT ![p].pc = "save", ![p].other = other,
                  ![p].code = salted_code(D, max_extra, procs[p].url, other, env)]

\* the digests known after the strategy call and, if made, the fallback hash
Hashed(url, salt, env) ==
    Remember(digests, strategy, url,
             [hashedUrl |-> strategy \in {"sha256", "hmac-sha256"}, salt |-> salt], env)

\* create_slink, lines 273-274: the base code and get_slink(code)
CreateGenerate(p) ==
    /\ AtWork(p, "create_slink", "generate")
    /\ strategy = "sequential" => counter < SeqStart + MaxGenerate
    /\ \E env \in EnvsOf(slinks, digests, strategy, procs[p].url, None, FALSE) :
        LET url  == procs[p].url
            code == Candidate(digests, counter, strategy, url, 0, env)
            D1   == Hashed(url, None, env)
        IN  IF ~Has(slinks, code)
            THEN /\ procs' = [procs EXCEPT ![p].pc = "save", ![p].code = code]
                 /\ digests' = D1
            ELSE IF slinks[code].url = url
            THEN /\ procs' = Done(p, "ok", code, "base")
                 /\ digests' = D1
            ELSE IF max_extra >= 1
            THEN /\ procs' = [procs EXCEPT ![p].pc = "extend", ![p].k = 1,
                                           ![p].other = slinks[code].url]
                 /\ digests' = D1
            ELSE /\ procs' = ToFallback(p, D1, slinks[code].url, env)
                 /\ digests' = Hashed(url, SaltPayload(url, slinks[code].url), env)
    /\ counter' = IF strategy = "sequential" THEN counter + 1 ELSE counter
    /\ UNCHANGED <<slinks, order, strategy, max_extra, last, returned, backend,
                       rows, click_logs, manager_min_length>>

\* create_slink, lines 279-283: one turn of the extension loop
CreateExtend(p) ==
    /\ AtWork(p, "create_slink", "extend")
    /\ strategy = "sequential" => counter < SeqStart + MaxGenerate
    /\ \E env \in EnvsOf(slinks, digests, strategy, procs[p].url, None, FALSE) :
        LET url  == procs[p].url
            cand == generate(strategy, digests, counter, url, manager_min_length + procs[p].k, 0, env)
            D1   == Hashed(url, None, env)
        IN  IF ~Has(slinks, cand)
            THEN /\ procs' = [procs EXCEPT ![p].pc = "save", ![p].code = cand]
                 /\ digests' = D1
            ELSE IF procs[p].k < max_extra
            THEN /\ procs' = [procs EXCEPT ![p].k = @ + 1]
                 /\ digests' = D1
            ELSE /\ procs' = ToFallback(p, D1, procs[p].other, env)
                 /\ digests' = Hashed(url, SaltPayload(url, procs[p].other), env)
    /\ counter' = IF strategy = "sequential" THEN counter + 1 ELSE counter
    /\ UNCHANGED <<slinks, order, strategy, max_extra, last, returned, backend,
                       rows, click_logs, manager_min_length>>

\* create_slink, line 291: save_slink(code, url, alias=None)
CreateSave(p) ==
    /\ AtWork(p, "create_slink", "save")
    /\ \E r \in {save_slink(slinks, order, procs[p].code, procs[p].url, None)} :
          /\ slinks' = r.slinks
          /\ order' = r.order
          /\ procs' = IF r.ok THEN Done(p, "ok", procs[p].code, "save")
                      ELSE Done(p, ErrPersist, None, "save")
    /\ UNCHANGED <<counter, digests, strategy, max_extra, last, returned, backend,
                       rows, click_logs, manager_min_length>>

NextRace ==
    \E p \in Callers :
        \/ ClickRead(p) \/ ClickWrite(p) \/ DbClick(p)
        \/ SaveCall(p)
        \/ CreateLookup(p) \/ CreateAliasSave(p)
        \/ CreateGenerate(p) \/ CreateExtend(p) \/ CreateSave(p)

\* the strategies the interleavings are explored with: one whose code is a
\* function of the url, the random one and the sequential one
RaceStrategies == {"sha256", "random", "sequential"}

InitRace ==
    /\ slinks = EmptyDict
    /\ order = <<>>
    /\ counter = SeqStart
    /\ digests = EmptyDict
    /\ strategy \in RaceStrategies
    /\ max_extra = MaxExtra
    /\ last = NoCall
    /\ returned = {}
    /\ backend \in {"memory", "db"}
    /\ procs = [p \in Callers |-> Idle]
    /\ rows = EmptyDict
    /\ click_logs = EmptyDict
    /\ manager_min_length = MinLength

SpecRace == InitRace /\ [][NextRace]_vars

(***************************************************************************)
(* Concurrent create_slink(url) calls without alias for one url that is    *)
(* not stored, on the in-memory backend with a strategy whose code is a    *)
(* function of the url.  Before the first of them starts, create_slink     *)
(* calls made one after another for another url, without alias or with the *)
(* base code or the max_extra = 0 salted code of the raced url as alias,   *)
(* fill the storage: the codes of the raced url may be taken by then.      *)
(***************************************************************************)
SetUp ==
    /\ \A p \in Callers : procs[p].pc = "idle"
    /\ CreateSlinkOver({UrlB}, {None, CodeA, CodeAS}, {FALSE})

\* the first storage call of create_slink(UrlA): find_code_by_url, line 267
DedupeLookup(p) == CreateLookupOver(p, {UrlA}, {None})

NextDedupe ==
    \/ SetUp
    \/ \E p \in Callers :
          \/ DedupeLookup(p)
          \/ CreateGenerate(p) \/ CreateExtend(p) \/ CreateSave(p)

InitDedupe ==
    /\ Init
    /\ strategy \in {"sha256", "hmac-sha256"}
    /\ max_extra \in {0, MaxExtra}

SpecDedupe == InitDedupe /\ [][NextDedupe]_vars

(***************************************************************************)
(* A Storage and a DBStorage fed the same save_slink calls.  The alias is   *)
(* None in every call, so the constraints a schema may put on the alias    *)
(* column play no part.                                                    *)
(***************************************************************************)
SaveBoth ==
    \E code \in StoreCodes, url \in StoreUrls :
      \E r \in {save_slink(slinks, order, code, url, None)},
         d \in {db_save_slink(rows, <<>>, code, url, None)} :
        /\ slinks' = r.slinks
        /\ order' = r.order
        /\ rows' = d.slinks
        /\ last' = [db |-> IF d.ok THEN "true" ELSE "false"] @@
                   [NoCall EXCEPT !.op = "save_slink", !.code = code, !.url = url,
                                  !.status = IF r.ok THEN "true" ELSE "false",
                                  !.bound = BoundUrl(slinks, code),
                                  !.changed = (r.slinks # slinks \/ r.order # order)]
        /\ UNCHANGED <<counter, digests, strategy, max_extra, returned, backend, procs,
                       click_logs, manager_min_length>>

InitBackends == Init /\ strategy = "sha256" /\ max_extra = 0
NextBackends == SaveBoth
SpecBackends == InitBackends /\ [][NextBackends]_vars

(***************************************************************************)
(* The HTTP endpoints of the application: POST /slink calls create_slink,  *)
(* GET /slink/{code} looks the code up, logs a click event and counts the  *)
(* click.  An event is kept without its timestamp.                         *)
(***************************************************************************)
Sources == {"api", "browser"}

\* the events logged for a code
EventsOf(L, code) == IF code \in DOMAIN L THEN L[code] ELSE <<>>

\* mutant: only the clicks on stored codes are logged
log_click_valid_only(L, code, source, valid) ==
    IF valid
    THEN (code :> Append(EventsOf(L, code), [source |-> source, valid |-> valid])) @@ L
    ELSE L

\* Analytics.log_click(slink_code, source, valid): click_logs after it
log_click(L, code, source, valid) ==
    (code :> Append(EventsOf(L, code), [source |-> source, valid |-> valid])) @@ L

\* mutant: the clicks of API clients are logged and not counted
redirect_slink_browser_only(S, L, code, source) ==
    IF ~Has(S, code)
    THEN [status |-> "404", slinks |-> S, click_logs |-> log_click(L, code, source, FALSE)]
    ELSE [status |-> "200",
          slinks |-> IF source = "browser" THEN increment_click(S, code).slinks ELSE S,
          click_logs |-> log_click(L, code, source, TRUE)]

\* redirect_slink(slink_code, request): the response status, the storage and
\* the click log after it
redirect_slink(S, L, code, source) ==
    IF ~Has(S, code)
    THEN [status |-> "404", slinks |-> S, click_logs |-> log_click(L, code, source, FALSE)]
    ELSE [status |-> "200", slinks |-> increment_click(S, code).slinks,
          click_logs |-> log_click(L, code, source, TRUE)]

RECURSIVE SumEvents(_, _)
SumEvents(L, codes) ==
    IF codes = {} THEN 0
    ELSE LET c == CHOOSE x \in codes : TRUE
         IN  Len(L[c]) + SumEvents(L, codes \ {c})

\* the number of events logged
TotalEvents(L) == SumEvents(L, DOMAIN L)

\* a GET /slink/{code} request for one of the codes
RedirectOver(codes) ==
    \E code \in codes, source \in Sources :
      \E r \in {redirect_slink(slinks, click_logs, code, source)} :
        /\ TotalEvents(click_logs) < MaxLookups
        /\ slinks' = r.slinks
        /\ click_logs' = r.click_logs
        /\ last' = [NoCall EXCEPT !.op = "redirect_slink", !.code = code,
                                  !.status = r.status,
                                  !.bound = BoundUrl(slinks, code),
                                  !.changed = (r.slinks # slinks)]
        /\ UNCHANGED <<order, counter, digests, strategy, max_extra, returned,
                       backend, procs, rows, manager_min_length>>

\* a GET /slink/{code} request for a stored or a missing code
Redirect == RedirectOver(DOMAIN slinks \cup {CodeV})

\* the POST /slink requests
CreateRequest == CreateSlinkOver({UrlA, UrlB}, {None, CodeA}, {FALSE})

InitApp == Init /\ strategy = "sha256" /\ max_extra = 0
NextApp == CreateRequest \/ Redirect
SpecApp == InitApp /\ [][NextApp]_vars

(***************************************************************************)
(* The application with lookups also of a code before it is stored: the    *)
(* code a later POST /slink asks for as alias or generates.                *)
(***************************************************************************)
Lookup == RedirectOver(DOMAIN slinks \cup {CodeV, CodeA})

NextClicks == CreateRequest \/ Lookup
SpecClicks == InitApp /\ [][NextClicks]_vars

(***************************************************************************)
(* The encoders and the strategies as functions of their arguments.  The   *)
(* initial state holds one call in `last`, its arguments drawn from the    *)
(* sets below; the action of the function called puts the result there.    *)
(***************************************************************************)
RECURSIVE Pow62(_)
Pow62(e) == IF e = 0 THEN 1 ELSE _BASE62_BASE * Pow62(e - 1)

\* the integers encoded: a negative one, the small ones, and the first and
\* last integers of each number of digits
Numbers ==
    (-1..MaxNum) \cup {Pow62(e) - 1 : e \in 1..MaxPad} \cup {Pow62(e) : e \in 1..MaxPad}

MinLengths == 1..MaxPad
Prefixes == {<<>>, <<"a", "p">>, <<"a", "p", "-">>}

\* the calls SequentialStrategy(start = n, min_length, prefix).generate(url)
SeqCalls ==
    [op : {"seq_generate"}, pc : {"call"}, n : Numbers, min_length : MinLengths,
     prefix : Prefixes, code : {None}]

\* the calls of both encoders on two non-negative integers
EncodeCalls ==
    [op : {"base62_encode"}, pc : {"call"}, n : Numbers \ {-1}, m : Numbers \ {-1},
     strategies : {<<None, None>>}, manager : {<<None, None>>}]

\* base-62 texts of digests: two of a 256-bit number with all its digits,
\* told apart at every position, and that of the number 7
HashTextA == [i \in 1..HashTextLen |-> Base62Alphabet[((7 * i) % _BASE62_BASE) + 1]]
HashTextB == [i \in 1..HashTextLen |-> Base62Alphabet[((11 * i + 3) % _BASE62_BASE) + 1]]
HashTexts == {HashTextA, HashTextB, <<"7">>}

Lengths == (-1)..(SafeLenMax + 2)

\* the calls generate(url, length = L, counter = hcounter) of a hashing
\* strategy at two lengths; text is the base-62 text of the digest of the
\* payload, the same for both
HashCalls ==
    [op : {"hash_generate"}, pc : {"call"}, strat : {"sha256", "hmac-sha256"},
     url : {UrlA, UrlB}, hcounter : {0, 1}, text : HashTexts,
     L1 : Lengths, L2 : Lengths, code : {<<None, None>>}, slink : {<<None, None>>}]

\* the function named by op is being called
Calling(op) == last.op = op /\ last.pc = "call"

\* the call of op has returned
Called(op) == last.op = op /\ last.pc = "done"

\* SequentialStrategy(start = n, min_length, prefix).generate(url)
SeqGenerate ==
    /\ Calling("seq_generate")
    /\ last' = [last EXCEPT !.pc = "done",
                            !.code = seq_code(last.n, last.min_length, last.prefix)]
    /\ UNCHANGED <<slinks, order, counter, digests, strategy, max_extra, returned,
                   backend, procs, rows, click_logs, manager_min_length>>

\* strategies._base62_encode and SlinkManager.base62_encode on n and on m
Base62Encode ==
    /\ Calling("base62_encode")
    /\ last' = [last EXCEPT !.pc = "done",
                            !.strategies = <<_base62_encode(last.n), _base62_encode(last.m)>>,
                            !.manager = <<base62_encode(last.n), base62_encode(last.m)>>]
    /\ UNCHANGED <<slinks, order, counter, digests, strategy, max_extra, returned,
                   backend, procs, rows, click_logs, manager_min_length>>

\* generate at the lengths L1 and L2, and deterministic_slink at both
HashGenerate ==
    /\ Calling("hash_generate")
    /\ last' = [last EXCEPT !.pc = "done",
                            !.code = <<hash_generate(last.text, last.L1),
                                       hash_generate(last.text, last.L2)>>,
                            !.slink = <<deterministic_slink(last.text, last.L1),
                                        deterministic_slink(last.text, last.L2)>>]
    /\ UNCHANGED <<slinks, order, counter, digests, strategy, max_extra, returned,
                   backend, procs, rows, click_logs, manager_min_length>>

InitCodes ==
    /\ slinks = EmptyDict
    /\ order = <<>>
    /\ counter = SeqStart
    /\ digests = EmptyDict
    /\ strategy = "sequential"
    /\ max_extra = 0
    /\ last \in SeqCalls \cup EncodeCalls \cup HashCalls
    /\ returned = {}
    /\ backend = "memory"
    /\ procs = [p \in Callers |-> Idle]
    /\ rows = EmptyDict
    /\ click_logs = EmptyDict
    /\ manager_min_length = MinLength

NextCodes == SeqGenerate \/ Base62Encode \/ HashGenerate
SpecCodes == InitCodes /\ [][NextCodes]_vars

(***************************************************************************)
(* The encoders statement by statement, for integers of either sign.       *)
(* `last` holds the call: the argument n, the locals num and arr of        *)
(* SlinkManager.base62_encode, the position pc (call, loop, done, raised)  *)
(* and the value returned.  Of the list arr the model keeps the first      *)
(* MaxArr digits.                                                          *)
(***************************************************************************)
Encoders == {"_base62_encode", "base62_encode"}

LoopCalls ==
    [op : Encoders, pc : {"call"}, n : (-MaxNum)..MaxNum, num : {0}, arr : {<<>>},
     ret : {None}]

\* strategies._base62_encode(n): raises for n < 0, else returns the text
StrategiesEncode ==
    /\ Calling("_base62_encode")
    /\ last' = IF _base62_encode(last.n) = ValueError
               THEN [last EXCEPT !.pc = "raised"]
               ELSE [last EXCEPT !.pc = "done", !.ret = _base62_encode(last.n)]
    /\ UNCHANGED <<slinks, order, counter, digests, strategy, max_extra, returned,
                   backend, procs, rows, click_logs, manager_min_length>>

\* SlinkManager.base62_encode(n), lines 145-148: "0" for 0, else the loop is
\* entered with an empty list
EncodeEnter ==
    /\ Calling("base62_encode")
    /\ last' = IF last.n = 0
               THEN [last EXCEPT !.pc = "done", !.ret = <<Base62Alphabet[1]>>]
               ELSE [last EXCEPT !.pc = "loop", !.num = last.n]
    /\ UNCHANGED <<slinks, order, counter, digests, strategy, max_extra, returned,
                   backend, procs, rows, click_logs, manager_min_length>>

(* lines 149-151: one turn of `while num:`.  The list grows by one digit    *)
(* each turn; only its first MaxArr digits are kept here, so for a         *)
(* negative number, where num stays at -1, the turns of the endless loop   *)
(* end up repeating one state.                                             *)
EncodeTurn ==
    /\ last.op = "base62_encode" /\ last.pc = "loop" /\ last.num # 0
    /\ \E st \in {encode_turn([num |-> last.num, arr |-> last.arr])} :
          last' = [last EXCEPT !.num = st.num, !.arr = Take(st.arr, MaxArr)]
    /\ UNCHANGED <<slinks, order, counter, digests, strategy, max_extra, returned,
                   backend, procs, rows, click_logs, manager_min_length>>

\* lines 152-153: the loop is left, the reversed list is returned
EncodeExit ==
    /\ last.op = "base62_encode" /\ last.pc = "loop" /\ last.num = 0
    /\ last' = [last EXCEPT !.pc = "done", !.ret = Reverse(last.arr)]
    /\ UNCHANGED <<slinks, order, counter, digests, strategy, max_extra, returned,
                   backend, procs, rows, click_logs, manager_min_length>>

InitLoop ==
    /\ slinks = EmptyDict
    /\ order = <<>>
    /\ counter = SeqStart
    /\ digests = EmptyDict
    /\ strategy = "sha256"
    /\ max_extra = 0
    /\ last \in LoopCalls
    /\ returned = {}
    /\ backend = "memory"
    /\ procs = [p \in Callers |-> Idle]
    /\ rows = EmptyDict
    /\ click_logs = EmptyDict
    /\ manager_min_length = MinLength

NextLoop == StrategiesEncode \/ EncodeEnter \/ EncodeTurn \/ EncodeExit

\* a call that can take a step takes it
SpecLoop == InitLoop /\ [][NextLoop]_vars /\ WF_vars(NextLoop)

(***************************************************************************)
(* One SequentialStrategy instance called from several threads.  The lock  *)
(* of generate covers `n = next(self._counter)`; encoding and padding are   *)
(* local to the caller.                                                    *)
(***************************************************************************)
\* mutant: the counter value is read and not advanced
SeqTakeStale(p) ==
    /\ procs[p].pc = "idle"
    /\ counter < SeqStart + MaxGenerate
    /\ counter' = counter
    /\ procs' = [procs EXCEPT ![p].op = "generate", ![p].pc = "encode",
                              ![p].seen = counter, ![p].k = @ + 1]
    /\ UNCHANGED <<slinks, order, digests, strategy, max_extra, last, returned,
                   backend, rows, click_logs, manager_min_length>>

\* generate, lines 171-172: with self._lock: n = next(self._counter)
SeqTake(p) ==
    /\ procs[p].pc = "idle"
    /\ counter < SeqStart + MaxGenerate
    /\ counter' = counter + 1
    /\ procs' = [procs EXCEPT ![p].op = "generate", ![p].pc = "encode",
                              ![p].seen = counter, ![p].k = @ + 1]
    /\ UNCHANGED <<slinks, order, digests, strategy, max_extra, last, returned,
                   backend, rows, click_logs, manager_min_length>>

\* generate, lines 173-178: the code of the value taken is returned; the
\* caller is free to call again
SeqReturn(p) ==
    /\ AtWork(p, "generate", "encode")
    /\ \E code \in {seq_code(procs[p].seen, SeqMinLength, SeqPrefix)} :
          /\ procs' = [procs EXCEPT ![p].pc = "idle", ![p].ret = code]
          /\ returned' = returned \cup {[by |-> p, call |-> procs[p].k,
                                         n |-> procs[p].seen, code |-> code]}
    /\ UNCHANGED <<slinks, order, counter, digests, strategy, max_extra, last,
                   backend, rows, click_logs, manager_min_length>>

NextSeq == \E p \in Callers : SeqTake(p) \/ SeqReturn(p)
InitSeq == Init /\ strategy = "sequential" /\ max_extra = 0
SpecSeq == InitSeq /\ [][NextSeq]_vars

(***************************************************************************)
(* Properties.                                                             *)
(***************************************************************************)
LocalHosts == {"127.0.0.1", "localhost"}

NoAliasCreate == last.op = "create_slink" /\ ~Truthy(last.alias)
AliasCreate   == last.op = "create_slink" /\ Truthy(last.alias)

\* C1: codes returned by create_slink for different urls differ; every
\* returned code is non-empty and resolves to the url it was returned for.
C1_UniqueCodes ==
    \A r1 \in returned :
        /\ r1.code # <<>>
        /\ Has(slinks, r1.code)
        /\ slinks[r1.code].url = r1.url
        /\ \A r2 \in returned : r1.url # r2.url => r1.code # r2.code

\* two urls the stub strategy gave the same base code both got a code
C1_Witness ==
    /\ strategy = "stub"
    /\ \E r1, r2 \in returned :
          /\ r1.alias = None /\ r2.alias = None
          /\ r1.url # r2.url
          /\ r1.code = Rep("Z", MinLength)
          /\ Take(r2.code, MinLength) = r1.code

\* all codes create_slink returned for one url without an alias are the same
SameCodePerUrl ==
    \A r1, r2 \in returned :
        (r1.alias = None /\ r2.alias = None /\ r1.url = r2.url) => r1.code = r2.code

ReturnedBefore(url) == \E r \in returned : r.alias = None /\ r.url = url

\* C2 as stated: once create_slink(url) without alias has returned c, every
\* later create_slink(url) without alias returns c.
C2_Original ==
    /\ SameCodePerUrl
    /\ (NoAliasCreate /\ ReturnedBefore(last.url)) => last.status = "ok"

\* C2 (amended): once create_slink(url) without alias has returned c, every
\* later create_slink(url) without alias returns c, unless the host is
\* localhost or 127.0.0.1 and the call is rejected as unreachable.
C2_IdempotentByUrl ==
    /\ SameCodePerUrl
    /\ (NoAliasCreate /\ ReturnedBefore(last.url)) =>
          \/ last.status = "ok"
          \/ last.status = ErrReach /\ hostname(last.url) \in LocalHosts

\* a repeated create_slink(url) was answered from the dedupe lookup although
\* the strategy would have produced another code
C2_Witness ==
    /\ strategy \in {"random", "sequential"}
    /\ NoAliasCreate /\ last.status = "ok" /\ last.gen = 0
    /\ Cardinality({r \in returned : r.url = last.url}) = 1
    /\ Cardinality(DOMAIN slinks) = 2

RequestedBefore == [url |-> last.url, alias |-> last.alias, code |-> last.alias] \in returned

\* C3 as stated: once create_slink(url, alias=A) has returned A, every later
\* create_slink(url, alias=A) returns A and leaves every record unchanged.
C3_Original ==
    (AliasCreate /\ RequestedBefore) =>
        /\ last.status = "ok" /\ last.ret = last.alias
        /\ (last.bound # EmptyUrl => ~last.changed)

\* C3 (amended): once create_slink(url, alias=A) has returned A, every later
\* create_slink(url, alias=A) returns A, unless the host is localhost or
\* 127.0.0.1 and the call is rejected as unreachable; in both cases every
\* record is left unchanged.
C3_IdempotentByAlias ==
    (AliasCreate /\ RequestedBefore) =>
        /\ \/ last.status = "ok" /\ last.ret = last.alias
           \/ last.status = ErrReach /\ hostname(last.url) \in LocalHosts
        /\ (last.bound # EmptyUrl => ~last.changed)

\* an alias was requested again for its url after its record was clicked
C3_Witness ==
    /\ AliasCreate /\ last.status = "ok" /\ last.bound = last.url
    /\ last.saved = "none"
    /\ slinks[last.alias].clicks > 0
    /\ Cardinality(DOMAIN slinks) = 2

\* the alias requested is a key bound to another url
AliasTaken == AliasCreate /\ last.bound \notin {EmptyUrl, last.url}

\* C4 as stated: create_slink(u2, alias=A) fails with "Alias already exists"
\* when A is a key bound to another url, and A stays bound to that url.
C4_Original ==
    AliasTaken =>
        /\ last.status = ErrConflict
        /\ ~last.changed /\ slinks[last.alias].url = last.bound

\* C4 (amended): create_slink(u2, alias=A) fails when A is a key bound to
\* another url, with "Alias already exists" or, for a host localhost or
\* 127.0.0.1 whose probe fails, as unreachable; A stays bound to its url.
C4_AliasConflict ==
    AliasTaken =>
        /\ \/ last.status = ErrConflict
           \/ last.status = ErrReach /\ hostname(last.url) \in LocalHosts
        /\ ~last.changed /\ slinks[last.alias].url = last.bound

\* an alias request was refused for a key that is a generated code
C4_Witness ==
    /\ AliasTaken /\ last.status = ErrConflict
    /\ \E r \in returned : r.code = last.alias /\ r.alias = None

\* C5: the url bound to a code never changes once the code is stored.
C5_UrlImmutable ==
    [][\A c \in DOMAIN slinks : Has(slinks', c) /\ slinks'[c].url = slinks[c].url]_vars

\* a save of another url under a stored code was attempted
C5_Witness ==
    /\ last.op = "save_slink" /\ last.url # EmptyUrl
    /\ last.bound \notin {EmptyUrl, last.url}
    /\ slinks[last.code].clicks > 0

\* C6 as stated: when save_slink(code, url, alias) returned true, repeating
\* the identical call returns true and leaves the storage unchanged.
C6_IdempotentResave ==
    [][(/\ last.op = "save_slink" /\ last.status = "true"
        /\ last'.op = "save_slink"
        /\ last'.code = last.code /\ last'.url = last.url /\ last'.alias = last.alias)
       => (last'.status = "true" /\ slinks' = slinks)]_vars

\* C7 as stated: no two records carry the same non-null alias, and no
\* record's non-null alias is the code of another record.
C7_AliasUnique ==
    \A c1, c2 \in DOMAIN slinks :
        (c1 # c2 /\ slinks[c1].alias # None) =>
            /\ slinks[c1].alias # slinks[c2].alias
            /\ slinks[c1].alias # c2

C9_NoSilentSaveFailure ==
    last.op = "create_slink" =>
        /\ last.status = "ok" =>
              /\ Has(slinks, last.ret)
              /\ slinks[last.ret].url = last.url
        /\ last.saved = "false" => (last.status = ErrPersist /\ last.ret = None)

\* the salted fallback code was taken by another url and the save refused
C9_Witness ==
    /\ last.op = "create_slink" /\ last.saved = "false"
    /\ last.status = ErrPersist
    /\ last.gen = 1 + max_extra
    /\ ~last.changed

C11_ClicksMonotone ==
    [][\A c \in DOMAIN slinks' :
          IF Has(slinks, c)
          THEN /\ slinks'[c].clicks >= slinks[c].clicks
               /\ slinks'[c].clicks # slinks[c].clicks =>
                      (last'.op = "increment_click" /\ last'.code = c)
          ELSE slinks'[c].clicks = 0]_vars

\* a record that has clicks was saved again under its code and url
C11_Witness ==
    /\ last.op = "save_slink" /\ last.status = "true"
    /\ last.bound = last.url
    /\ slinks[last.code].clicks > 0

\* C12: increment_click returns false and changes nothing for a missing
\* code; for a stored code it returns true and adds exactly 1 to the clicks
\* of that record, leaving its url and alias and all other records as is.
C12_IncrementClick ==
    [][last'.op = "increment_click" =>
          IF Has(slinks, last'.code)
          THEN /\ last'.status = "true"
               /\ slinks' = [slinks EXCEPT ![last'.code].clicks = @ + 1]
               /\ order' = order
          ELSE /\ last'.status = "false"
               /\ slinks' = slinks /\ order' = order]_vars

\* a record with an alias was clicked while another record is stored
C12_Witness ==
    /\ last.op = "increment_click" /\ last.status = "true"
    /\ slinks[last.code].alias # None
    /\ slinks[last.code].clicks = 1
    /\ Cardinality(DOMAIN slinks) = 2

Finished(p, op) == procs[p].op = op /\ procs[p].pc = "done"

\* the callers whose increment_click(c) returned true
Clicked(c) ==
    {p \in Callers : Finished(p, "increment_click") /\ procs[p].code = c
                     /\ procs[p].status = "true"}

\* C13 as stated: once the concurrent increment_click calls on a code have
\* all completed, its clicks have grown by the number of those calls.
C13_NoLostClicks ==
    \A c \in DOMAIN slinks :
        (\A p \in Callers :
            (procs[p].op = "increment_click" /\ procs[p].code = c) => procs[p].pc = "done")
        => slinks[c].clicks = Cardinality(Clicked(c))

\* the same for DBStorage alone, whose increment is one statement
DbNoLostClicks == backend = "db" => C13_NoLostClicks

\* two callers alone have called save_slink, on one code with different urls
SaveRace(p, q) ==
    /\ p # q
    /\ Finished(p, "save_slink") /\ Finished(q, "save_slink")
    /\ procs[p].code = procs[q].code /\ procs[p].url # procs[q].url
    /\ \A r \in Callers \ {p, q} : procs[r].op # "save_slink"

\* C14: of two concurrent save_slink calls for one code with different urls
\* one returns true, the other false, and the code is bound to the url of
\* the one that returned true.
C14_SingleWinner ==
    \A p, q \in Callers :
        SaveRace(p, q) =>
            /\ procs[p].status = "true" \/ procs[q].status = "true"
            /\ procs[p].status = "true" =>
                   /\ procs[q].status = "false"
                   /\ slinks[procs[p].code].url = procs[p].url

\* a code race was decided, on DBStorage
C14_Witness ==
    /\ backend = "db"
    /\ \E p, q \in Callers :
          SaveRace(p, q) /\ procs[p].status = "true" /\ procs[q].status = "false"

\* two callers alone have asked for one alias, for different urls
AliasRace(p, q) ==
    /\ p # q
    /\ Finished(p, "create_slink") /\ Finished(q, "create_slink")
    /\ Truthy(procs[p].alias) /\ procs[p].alias = procs[q].alias
    /\ procs[p].url # procs[q].url
    /\ \A r \in Callers \ {p, q} :
          /\ procs[r].alias # procs[p].alias
          /\ procs[r].code # procs[p].alias /\ procs[r].ret # procs[p].alias

\* C15: of two interleaved create_slink calls for one alias with different
\* urls one returns the alias, the other fails with "Alias already exists"
\* or "Failed to create slink", and the alias is bound to the winner's url.
C15_AliasRace ==
    \A p, q \in Callers :
        AliasRace(p, q) =>
            /\ procs[p].status = "ok" \/ procs[q].status = "ok"
            /\ procs[p].status = "ok" =>
                   /\ procs[p].ret = procs[p].alias
                   /\ procs[q].status \in {ErrConflict, ErrPersist}
                   /\ slinks[procs[p].alias].url = procs[p].url

\* both callers found the alias free and one lost at save_slink
C15_Witness ==
    \E p, q \in Callers :
        /\ AliasRace(p, q)
        /\ procs[p].status = "ok" /\ procs[p].via = "alias_save"
        /\ procs[q].status = ErrPersist /\ procs[q].via = "alias_save"

\* a create_slink call without alias that is over
Created(p, via) ==
    /\ Finished(p, "create_slink") /\ ~Truthy(procs[p].alias)
    /\ procs[p].status = "ok" /\ procs[p].via = via

\* C16: two interleaved create_slink(url) calls may store two codes for a
\* new url; each is stored with the url, and every call answered by the
\* dedupe lookup returns the first of the records stored for the url.
C16_DedupeRace ==
    \A p \in Callers :
        /\ Created(p, "save") =>
              (Has(slinks, procs[p].ret) /\ slinks[procs[p].ret].url = procs[p].url)
        /\ Created(p, "dedupe") =>
              procs[p].ret = find_code_by_url(slinks, order, procs[p].url)

\* two callers stored different codes for one url and a third was answered
\* with one of them
C16_Witness ==
    /\ strategy \in {"random", "sequential"}
    /\ \E p, q, r \in Callers :
          /\ Created(p, "save") /\ Created(q, "save") /\ Created(r, "dedupe")
          /\ procs[p].url = procs[q].url /\ procs[r].url = procs[p].url
          /\ procs[p].ret # procs[q].ret
          /\ procs[r].ret = procs[p].ret

\* the reachability checker answered "unreachable" to a probe of the last call
ReportedUnreachable == \E i \in 1..Len(last.answers) : ~last.answers[i]

\* the url of the last call names the local host
LocalUrl == hostname(last.url) \in LocalHosts

\* C17 as stated: a valid url is refused as unreachable exactly when
\* check_reachable was requested and the checker reported it unreachable;
\* without the request the checker is not consulted.
C17_Original ==
    last.op = "create_slink" /\ ValidUrl(last.url) =>
        /\ last.status = ErrReach <=> (last.check /\ ReportedUnreachable)
        /\ ~last.check => last.probes = 0

\* C17: a valid url is refused as unreachable exactly when the checker was
\* consulted and reported it unreachable.  The checker is consulted when
\* check_reachable is requested or the host is localhost or 127.0.0.1, and
\* a second time when check_reachable is requested and the first probe
\* reported reachable; for any other valid url it is not consulted.
C17_ReachabilityGate ==
    last.op = "create_slink" /\ ValidUrl(last.url) =>
        /\ Len(last.answers) = last.probes
        /\ last.status = ErrReach <=> ReportedUnreachable
        /\ last.probes > 0 <=> (last.check \/ LocalUrl)
        /\ last.probes = 2 <=> (last.check /\ last.answers[1])
        /\ last.probes <= 2

\* a local url is refused as unreachable though check_reachable is false
C17_Witness ==
    /\ last.op = "create_slink" /\ ~last.check /\ LocalUrl
    /\ last.status = ErrReach /\ last.answers = <<FALSE>>

\* the last call left the storage alone: no save, no change
StorageUntouched == last.saved = "none" /\ ~last.changed

\* C18: create_slink with a url whose scheme is not http/https or whose host
\* is empty fails with "Invalid URL format" whatever the alias and
\* check_reachable are, with no probe, no strategy call and no storage
\* access.
C18_UrlValidationFirst ==
    (/\ last.op = "create_slink"
     /\ last.url.scheme \notin {"http", "https"} \/ hostname(last.url) = "")
    => (/\ last.status = ErrUrl
        /\ last.probes = 0 /\ last.gen = 0 /\ StorageUntouched)

\* every character of the alias is one of the alphabet
AlphabetOnly(alias) == \A i \in 1..Len(alias) : alias[i] \in AlphabetChars

\* C19: for a valid url that passed the reachability gate, a non-empty
\* alias with a character outside [0-9a-zA-Z] fails with "Alias must contain
\* only 0-9a-zA-Z" whatever its length, an alphabet-only alias longer than
\* 32 fails with "Alias too long", an alphabet-only alias of length 1..32
\* is not refused by the validation, and the failures leave the storage
\* alone.
C19_AliasValidation ==
    (/\ last.op = "create_slink" /\ _validate_url(last.url)
     /\ Truthy(last.alias) /\ last.status # ErrReach)
    => (/\ ~AlphabetOnly(last.alias)
            => (last.status = ErrAlias /\ StorageUntouched)
        /\ (AlphabetOnly(last.alias) /\ Len(last.alias) > AliasMaxLen)
            => (last.status = ErrTooLong /\ StorageUntouched)
        /\ (AlphabetOnly(last.alias) /\ Len(last.alias) <= AliasMaxLen)
            => last.status \notin {ErrAlias, ErrTooLong})

TypedFailures == {ErrUrl, ErrReach, ErrAlias, ErrTooLong, ErrConflict, ErrPersist}

\* C20: a create_slink call calls the code strategy at most 1 + max_extra
\* times and save_slink at most once, and ends with a code or with one
\* typed failure; a refused save ends the call.
C20_BoundedCreation ==
    last.op = "create_slink" =>
        /\ last.gen <= 1 + max_extra
        /\ last.saved \in {"none", "true", "false"}
        /\ \/ last.status = "ok" /\ last.ret # None /\ last.saved # "false"
           \/ last.status \in TypedFailures /\ last.ret = None /\ last.saved # "true"
        /\ last.saved = "false" => last.status = ErrPersist

\* the base code and every extension were occupied: the strategy was called
\* 1 + max_extra times, the salted fallback was derived and the call ended
C20_Witness ==
    /\ last.op = "create_slink" /\ max_extra > 0
    /\ last.gen = 1 + max_extra
    /\ \E c \in DOMAIN slinks : SaltPayload(last.url, slinks[c].url) \in DOMAIN digests

\* the callers that hold a counter value and have not returned its code
Encoding == {p \in Callers : procs[p].pc = "encode"}

\* the counter values taken so far by the generate calls
Taken == {r.n : r \in returned} \cup {procs[p].seen : p \in Encoding}

\* C21: the generate calls of one SequentialStrategy instance, also when
\* made from several threads, take the values start, start + 1, ... each
\* once, the counter never decreases, and the codes returned are pairwise
\* distinct.
C21_SequentialUnique ==
    /\ [](/\ Taken = SeqStart..(counter - 1)
          /\ Cardinality(returned) + Cardinality(Encoding) = counter - SeqStart
          /\ \A r1, r2 \in returned :
                r1 # r2 => (r1.n # r2.n /\ r1.code # r2.code))
    /\ [][counter' >= counter]_vars

\* two threads held counter values at once, and their codes were returned
C21_Witness ==
    /\ Cardinality(returned) >= 2
    /\ \E r1, r2 \in returned : r1.by # r2.by /\ r2.n = r1.n + 1
    /\ \E p \in Encoding : \E r \in returned : r.by # p /\ r.n > procs[p].seen

\* the position of a character in the alphabet, counted from 0
DigitValue(ch) == (CHOOSE i \in 1..Len(Base62Alphabet) : Base62Alphabet[i] = ch) - 1

RECURSIVE B62Value(_)
\* the number a text over the alphabet denotes, most significant digit first
B62Value(text) ==
    IF text = <<>> THEN 0
    ELSE _BASE62_BASE * B62Value(SubSeq(text, 1, Len(text) - 1))
         + DigitValue(text[Len(text)])

\* the number of base-62 digits of n >= 0
NumDigits(n) == CHOOSE d \in 1..(MaxPad + 2) : n < Pow62(d) /\ (d > 1 => n >= Pow62(d - 1))

\* the text of a sequential code after its prefix
AfterPrefix == SubSeq(last.code, Len(last.prefix) + 1, Len(last.code))

C23_Base62Correct ==
    Called("base62_encode") =>
        LET text == last.strategies[1]
        IN  /\ last.manager = last.strategies
            /\ Len(text) = NumDigits(last.n)
            /\ \A i \in 1..Len(text) : text[i] \in AlphabetChars
            /\ B62Value(text) = last.n
            /\ last.n > 0 => text[1] # "0"
            /\ last.n = 0 => text = <<"0">>
            /\ last.n = 61 => text = <<"Z">>
            /\ last.n = 62 => text = <<"1", "0">>
            /\ last.n # last.m => text # last.strategies[2]

\* 62 and 62^2 encoded by both encoders: "10" and "100"
C23_Witness ==
    /\ Called("base62_encode") /\ last.n = 62 /\ last.m = Pow62(2)
    /\ last.manager = <<<<"1", "0">>, <<"1", "0", "0">>>>
    /\ last.strategies = last.manager

\* C24: a call of either encoder on a negative integer ends by raising an
\* error.
C24_NegativeRejected == (last.n < 0) ~> (last.pc = "raised")

\* the same for strategies._base62_encode alone
StrategiesRejectNegative ==
    (last.op = "_base62_encode" /\ last.n < 0) ~> (last.pc = "raised")

\* a call on a non-negative integer ends and returns the text of the number
EncodersReturn ==
    (last.n >= 0) ~> (last.pc = "done" /\ last.ret = _base62_encode(last.n))

\* text s is the beginning of text t
IsPrefix(s, t) == Len(s) <= Len(t) /\ SubSeq(t, 1, Len(s)) = s

\* C25: for one url, counter and secret, and requested lengths L1 <= L2,
\* the code of a hashing strategy at L1 is a prefix of its code at L2; the
\* code is the first clamp(L, 4, 32) characters of the digest text.
\* deterministic_slink, which does not clamp, is prefix-consistent for
\* lengths from 0 on.
C25_PrefixConsistent ==
    Called("hash_generate") =>
        /\ \A i \in 1..2 :
              LET L == IF i = 1 THEN last.L1 ELSE last.L2
                  clamped == Max(SafeLenMin, IF L > SafeLenMax THEN SafeLenMax ELSE L)
              IN  /\ IsPrefix(last.code[i], last.text)
                  /\ Len(last.code[i]) = IF Len(last.text) < clamped
                                         THEN Len(last.text) ELSE clamped
        /\ last.L1 <= last.L2 => IsPrefix(last.code[1], last.code[2])
        /\ (0 <= last.L1 /\ last.L1 <= last.L2) => IsPrefix(last.slink[1], last.slink[2])

\* lengths 6 and 8: the code of length 6 is the first 6 characters of the
\* code of length 8
C25_Witness ==
    /\ Called("hash_generate") /\ last.L1 = 6 /\ last.L2 = 8
    /\ Len(last.code[1]) = 6 /\ Len(last.code[2]) = 8
    /\ last.code[1] = SubSeq(last.code[2], 1, 6)

\* every character of the text is one of the alphabet
OverAlphabet(text) == \A i \in 1..Len(text) : text[i] \in AlphabetChars

\* C26: every code a built-in strategy returns, for any start value, minimum
\* length and shard prefix, consists of characters of [0-9A-Za-z] only.
C26_AlphabetOnly ==
    /\ (Called("seq_generate") /\ last.code # ValueError) => OverAlphabet(last.code)
    /\ Called("hash_generate") => (OverAlphabet(last.code[1]) /\ OverAlphabet(last.code[2]))

\* the same for configurations whose shard prefix is over the alphabet
AlphabetOnlyGivenPrefix ==
    /\ (Called("seq_generate") /\ last.code # ValueError /\ OverAlphabet(last.prefix))
          => OverAlphabet(last.code)
    /\ Called("hash_generate") => (OverAlphabet(last.code[1]) /\ OverAlphabet(last.code[2]))

\* C27: fed the same sequence of save_slink calls, DBStorage.save_slink
\* returns what Storage.save_slink returns.
C27_BackendsAgree ==
    last.op = "save_slink" => last.db = last.status

\* C28: once a record exists for a code, no later call changes its alias
\* field (nor its url); the only field that changes is clicks.
C28_OnlyClicksChange ==
    [][\A c \in DOMAIN slinks :
          /\ c \in DOMAIN slinks'
          /\ slinks'[c].alias = slinks[c].alias
          /\ slinks'[c].url = slinks[c].url]_vars

\* the part of it that holds: a record is never removed, its url never
\* changes, and its clicks change by increment_click only
UrlKeptClicksByIncrement ==
    [][\A c \in DOMAIN slinks :
          /\ c \in DOMAIN slinks'
          /\ slinks'[c].url = slinks[c].url
          /\ slinks'[c].clicks # slinks[c].clicks
                => (last'.op = "increment_click" /\ last'.code = c
                    /\ slinks'[c].clicks = slinks[c].clicks + 1)]_vars

\* the key of the storage call a caller has made or is making: the alias in
\* the alias path of create_slink, the code otherwise
KeyOf(c) ==
    IF c.op = "create_slink" /\ c.pc \in {"alias_save"} THEN c.alias
    ELSE IF c.op = "create_slink" /\ c.pc = "done" /\ c.via = "alias_save" THEN c.alias
    ELSE c.code

\* C29: a step of a save_slink or increment_click call for a code, made by
\* any caller at any point of the other callers' calls, leaves every record
\* keyed by another code as it was: none is created, modified or removed.
C29_OthersUntouched ==
    [][\A p \in Callers :
          procs'[p] # procs[p] =>
              \A c \in (DOMAIN slinks \cup DOMAIN slinks') \ {KeyOf(procs'[p])} :
                  /\ c \in DOMAIN slinks
                  /\ c \in DOMAIN slinks'
                  /\ slinks'[c] = slinks[c]]_vars

\* a caller has saved a record under a code of its own while another caller
\* is between the read and the write of a click on a different, stored code
C29_Witness ==
    \E p, q \in Callers :
        /\ p # q
        /\ procs[q].pc = "click_write"
        /\ procs[p].op = "create_slink" /\ procs[p].pc = "done"
        /\ procs[p].via \in {"save", "alias_save"}
        /\ procs[p].ret # procs[q].code
        /\ Has(slinks, procs[p].ret) /\ Has(slinks, procs[q].code)

\* C30: a lookup through the redirect endpoint appends exactly one click
\* event, for the code looked up, valid exactly when the code is stored;
\* it then counts one click on that record, and a lookup of a missing code
\* changes no record; a creation request appends no click event.
C30_ClicksLoggedOnLookups ==
    [][IF last'.op = "redirect_slink"
       THEN LET c == last'.code
                before == EventsOf(click_logs, c)
                after == EventsOf(click_logs', c)
            IN  /\ Len(after) = Len(before) + 1
                /\ SubSeq(after, 1, Len(before)) = before
                /\ after[Len(after)].valid = Has(slinks, c)
                /\ \A d \in (DOMAIN click_logs \cup DOMAIN click_logs') \ {c} :
                       EventsOf(click_logs', d) = EventsOf(click_logs, d)
                /\ Has(slinks, c) => slinks' = [slinks EXCEPT ![c].clicks = @ + 1]
                /\ ~Has(slinks, c) => slinks' = slinks
       ELSE click_logs' = click_logs]_vars

\* a missing code and a stored code have each been looked up once: one
\* invalid event for the first, one valid event and one click for the second
C30_Witness ==
    /\ ~Has(slinks, CodeV)
    /\ EventsOf(click_logs, CodeV) = <<[source |-> "api", valid |-> FALSE]>>
    /\ \E c \in DOMAIN slinks :
          /\ Len(EventsOf(click_logs, c)) = 1
          /\ click_logs[c][1].valid
          /\ slinks[c].clicks = 1

\* the strategies whose code is the first `length` characters of one text
LengthHonouring == {"sha256", "hmac-sha256", "stub"}

\* a create_slink(url) call with no alias found no record of the url and its
\* base code bound to another url
BaseTaken ==
    /\ last.op = "create_slink" /\ ~Truthy(last.alias)
    /\ last.status # ErrUrl /\ last.status # ErrReach
    /\ ~last.mapped
    /\ last.other \notin {EmptyUrl, last.url}

\* the extensions that were free when the call looked them up
FreeExtensions == {k \in 1..max_extra : ~last.occupied[k + 1]}

\* C31: when no record maps the url and the base code is bound to another
\* url, create_slink stores and returns the code the strategy yields for
\* length min_length + k, k the smallest of 1..max_extra whose code is free;
\* under a length-honouring strategy that code starts with the base code
\* and is longer.
C31_MinimalExtension ==
    (BaseTaken /\ FreeExtensions # {}) =>
        LET k == CHOOSE j \in FreeExtensions : \A i \in FreeExtensions : j <= i
        IN  /\ last.status = "ok"
            /\ last.ret = last.cands[k + 1]
            /\ last.gen = 1 + k
            /\ Has(slinks, last.ret) /\ slinks[last.ret].url = last.url
            /\ strategy \in LengthHonouring =>
                   /\ Len(last.ret) > Len(last.cands[1])
                   /\ Take(last.ret, Len(last.cands[1])) = last.cands[1]

\* the first extension was occupied and the second one was taken
C31_Witness ==
    /\ BaseTaken /\ strategy = "sha256"
    /\ FreeExtensions = {2}
    /\ last.ret = Rep("a", MinLength + 2)

\* the base code and every extension candidate were occupied
AllTaken == BaseTaken /\ FreeExtensions = {}

\* the call went to the salted fallback: one code, of the fixed slice length,
\* saved once and returned unless the save was refused
SaltedUsed ==
    /\ last.gen = 1 + max_extra
    /\ Len(last.salted) = manager_min_length + max_extra + 2
    /\ last.saved \in {"true", "false"}
    /\ last.status = (IF last.saved = "true" THEN "ok" ELSE ErrPersist)
    /\ last.status = "ok" =>
          /\ last.ret = last.salted
          /\ Has(slinks, last.salted) /\ slinks[last.salted].url = last.url

\* the salted code has neither the length nor the content of a candidate
SaltedApart ==
    \A i \in 1..(1 + max_extra) :
        /\ Len(last.salted) # Len(last.cands[i])
        /\ last.salted # last.cands[i]

\* C32 as stated: when the base code and all extension candidates are
\* occupied, create_slink uses one salted code of length min_length +
\* max_extra + 2, which differs in length and in content from the base code
\* and from every extension candidate.
C32_Original ==
    AllTaken => (SaltedUsed /\ SaltedApart)

\* C32 (amended): ... which differs in length and in content from the base
\* code and every extension candidate of a strategy that returns the first
\* characters of one text, provided min_length + max_extra >= 3 where the
\* strategy clamps the requested length to [4, 32].
C32_SaltedFallback ==
    AllTaken =>
        /\ SaltedUsed
        /\ (\/ strategy = "stub"
            \/ /\ strategy \in {"sha256", "hmac-sha256", "random"}
               /\ manager_min_length + max_extra >= SafeLenMin - 1)
           => SaltedApart

\* the fallback was taken after an extension loop that found every
\* candidate occupied, and its code was stored
C32_Witness ==
    /\ AllTaken /\ strategy = "sha256"
    /\ max_extra = MaxExtra /\ manager_min_length = MinLength
    /\ last.status = "ok" /\ last.ret = last.salted
    /\ Len(last.ret) = MinLength + MaxExtra + 2

\* the step is a create_slink(url) call with no alias for a url that a
\* record maps
DedupeStep ==
    /\ last'.op = "create_slink" /\ ~Truthy(last'.alias)
    /\ \E c \in DOMAIN slinks : slinks[c].url = last'.url

\* the call before the step was a create_slink(url, alias = A) that returned A
AfterAliasOf(url) ==
    /\ last.op = "create_slink" /\ Truthy(last.alias)
    /\ last.status = "ok" /\ last.ret = last.alias /\ last.url = url

\* the step changes neither the storage nor the sequential counter and calls
\* neither the strategy nor save_slink
NothingDone ==
    /\ slinks' = slinks /\ order' = order /\ counter' = counter
    /\ last'.gen = 0 /\ last'.saved = "none"

\* C33 as stated: create_slink(url) with no alias, for a url some record
\* maps, returns that record's code without calling the strategy or
\* save_slink and leaves storage and counter unchanged; right after
\* create_slink(url, alias = A) it returns A.
C33_Original ==
    [][DedupeStep =>
          /\ last'.status = "ok"
          /\ Has(slinks, last'.ret) /\ slinks[last'.ret].url = last'.url
          /\ NothingDone
          /\ AfterAliasOf(last'.url) => last'.ret = last.alias]_vars

\* C33 (amended): such a call leaves storage and counter unchanged and calls
\* neither the strategy nor save_slink; it returns the code of the oldest
\* record of the url, unless the host is localhost or 127.0.0.1 and the
\* probe fails; right after create_slink(url, alias = A) it returns A when
\* A is the only record of the url.
C33_DedupeShortCircuit ==
    [][DedupeStep =>
          /\ NothingDone
          /\ \/ last'.status = "ok"
             \/ last'.status = ErrReach /\ hostname(last'.url) \in LocalHosts
          /\ last'.status = "ok" =>
                /\ last'.ret = find_code_by_url(slinks, order, last'.url)
                /\ (/\ AfterAliasOf(last'.url)
                    /\ \A c \in DOMAIN slinks : slinks[c].url = last'.url => c = last.alias)
                   => last'.ret = last.alias]_vars

\* under the sequential strategy a url stored under an alias only was
\* requested without alias: the alias came back and the counter stands
\* where it started
C33_Witness ==
    /\ strategy = "sequential" /\ counter = SeqStart
    /\ last.op = "create_slink" /\ ~Truthy(last.alias)
    /\ last.status = "ok" /\ last.gen = 0
    /\ slinks[last.ret].alias = last.ret
    /\ Cardinality(DOMAIN slinks) = 1

\* a create_slink(url) call with no alias returned a code
Generated == last.op = "create_slink" /\ ~Truthy(last.alias) /\ last.status = "ok"

C35_FailureChangesNothing ==
    [][(last'.op = "create_slink" /\ last'.status \in TypedFailures)
          => (slinks' = slinks /\ order' = order)]_vars

\* the save of a salted fallback code was refused and the call failed, with
\* more than one record stored and a click counted
C35_Witness ==
    /\ last.op = "create_slink" /\ last.status = ErrPersist /\ last.saved = "false"
    /\ Cardinality(DOMAIN slinks) > 1
    /\ \E c \in DOMAIN slinks : slinks[c].clicks > 0

\* C36: in every state reached by create_slink calls alone, made one after
\* another with and without aliases, each stored record has no alias or its
\* own code as alias, so no alias is the code of another record
C36_AliasIsOwnCode ==
    /\ \A c \in DOMAIN slinks : slinks[c].alias = None \/ slinks[c].alias = c
    /\ \A c, d \in DOMAIN slinks : (c # d) => (slinks[c].alias # d)

\* one url has a record under an alias and a record under a generated code,
\* and the alias of the last call is stored
C36_Witness ==
    /\ last.op = "create_slink" /\ last.status = "ok" /\ Truthy(last.alias)
    /\ last.saved = "true"
    /\ \E c, d \in DOMAIN slinks :
          /\ slinks[c].alias = c /\ slinks[d].alias = None
          /\ slinks[c].url = slinks[d].url

\* a create_slink(url) call without alias that is over
Raced(p) == Finished(p, "create_slink") /\ ~Truthy(procs[p].alias)

\* the codes stored for the url
CodesOf(url) == {c \in DOMAIN slinks : slinks[c].url = url}

\* the caller found the base code of its url bound to another url
Collided(p) == procs[p].other # EmptyUrl

\* no caller did: the first call to save a code for the url is among those
\* that are over, and it looked the base code up
BaseNotTaken == \A r \in Callers : ~Collided(r)

\* C37 as stated: interleaved create_slink(url) calls without alias for one
\* new url, under the content-hash or the keyed-hash strategy on the
\* in-memory backend, all succeed with one code, and one record is stored
\* for the url.
C37_Original ==
    \A p, q \in Callers :
        (Raced(p) /\ Raced(q)) =>
            /\ procs[p].status = "ok" /\ procs[q].status = "ok"
            /\ procs[p].ret = procs[q].ret
            /\ CodesOf(procs[p].url) = {procs[p].ret}

\* C37: the same, for a url whose base code is not bound to another url
C37_DedupeRaceHarmless ==
    \A p, q \in Callers :
        (Raced(p) /\ Raced(q) /\ BaseNotTaken) =>
            /\ procs[p].status = "ok" /\ procs[q].status = "ok"
            /\ procs[p].ret = procs[q].ret
            /\ CodesOf(procs[p].url) = {procs[p].ret}

\* two callers missed the dedupe lookup and saved the same code, a third
\* found the code stored for its url after generating it
C37_Witness ==
    \E p, q, r \in Callers :
        /\ p # q
        /\ Created(p, "save") /\ Created(q, "save") /\ Created(r, "base")
        /\ procs[p].url = procs[q].url /\ procs[r].url = procs[p].url
        /\ procs[p].ret = procs[q].ret /\ procs[r].ret = procs[p].ret
        /\ BaseNotTaken
        /\ Cardinality(DOMAIN slinks) > 1

\* the number of events logged for the code with valid == true
ValidClicks(L, code) ==
    Cardinality({i \in 1..Len(EventsOf(L, code)) : EventsOf(L, code)[i].valid})

\* C38: after any sequence of create and lookup requests, the clicks of each
\* stored record is the number of valid events logged for its code, and the
\* events logged for a code that is not stored are all invalid
C38_ClicksMatchValidLog ==
    /\ \A c \in DOMAIN slinks : slinks[c].clicks = ValidClicks(click_logs, c)
    /\ \A c \in DOMAIN click_logs \ DOMAIN slinks : ValidClicks(click_logs, c) = 0

\* a code was looked up before it was stored and again after: its log has an
\* invalid and a valid event, its record one click
C38_Witness ==
    /\ last.op = "redirect_slink" /\ last.status = "200"
    /\ Len(EventsOf(click_logs, last.code)) = 2
    /\ ~EventsOf(click_logs, last.code)[1].valid
    /\ slinks[last.code].clicks = 1

====
